---- MODULE Spec2Model ----
(***************************************************************************)
(* The markdown renderer of src/src/components/markdown.ts as a state      *)
(* machine.  A string is a sequence of one-character strings; the output   *)
(* buffer _html is the sequence of the pieces appended to it, so that its  *)
(* concatenation is the string html() returns.                             *)
(***************************************************************************)
EXTENDS Integers, Sequences, FiniteSets, TLC

VARIABLES
    input,      \* MarkdownRenderer._input
    cursor,     \* MarkdownRenderer._cursor (0-based, as in the source)
    id,         \* MarkdownRenderState._id
    html,       \* MarkdownRenderState._html
    stack,      \* MarkdownRenderState._commandStack, outermost first
    pc,         \* where the caller of render() stands
    text,       \* render(): the residual text of the line last classified
    commands,   \* render(): the instances classified for that line
    issued,     \* history: the values uniqueId() has returned, in order
    log,        \* history: the pushCommand/popCommand calls, in order
    rendered    \* history: the renderers that came before this one

vars ==
    <<input, cursor, id, html, stack, pc, text, commands, issued, log, rendered>>

-----------------------------------------------------------------------------
(* Characters and strings *)

HSpace == {" ", "\t"}
Space == HSpace \cup {"\n"}
\* The backtick character, which a TLA+ string literal cannot hold.
Backtick == "BACKTICK"
Digit == {"0", "1", "2", "3", "4", "5", "6", "7", "8", "9"}

Min(a, b) == IF a < b THEN a ELSE b

Drop(s, n) == SubSeq(s, n + 1, Len(s))

Take(s, n) == SubSeq(s, 1, Min(n, Len(s)))

RECURSIVE CountIn(_, _, _)
CountIn(s, i, S) ==
    IF i <= Len(s) /\ s[i] \in S THEN 1 + CountIn(s, i + 1, S) ELSE 0

RECURSIVE CountNotIn(_, _, _)
CountNotIn(s, i, S) ==
    IF i <= Len(s) /\ s[i] \notin S THEN 1 + CountNotIn(s, i + 1, S) ELSE 0

At(s, i, lit) ==
    /\ i >= 1
    /\ i + Len(lit) - 1 <= Len(s)
    /\ \A j \in 1..Len(lit) : s[i + j - 1] = lit[j]

RECURSIVE IndexOf(_, _, _)
IndexOf(s, lit, from) ==
    IF from + Len(lit) - 1 > Len(s) THEN 0
    ELSE IF At(s, from, lit) THEN from
    ELSE IndexOf(s, lit, from + 1)

LineEnd(s, from) ==
    LET nl == IndexOf(s, <<"\n">>, from)
    IN  IF nl = 0 THEN Len(s) ELSE nl - 1

RECURSIVE TrimStart(_)
TrimStart(s) ==
    IF s # <<>> /\ s[1] \in Space THEN TrimStart(Tail(s)) ELSE s

RECURSIVE TrimEnd(_)
TrimEnd(s) ==
    IF s # <<>> /\ s[Len(s)] \in Space THEN TrimEnd(SubSeq(s, 1, Len(s) - 1)) ELSE s

Trim(s) == TrimEnd(TrimStart(s))

StartsWith(s, lit) == At(s, 1, lit)

EndsWith(s, lit) == At(s, Len(s) - Len(lit) + 1, lit)

-----------------------------------------------------------------------------
(* MarkdownCommand and TextAlignment *)

PARAGRAPH == "p"
HEADING == "h"
CHECKBOX_LABEL == "label"
BLOCKQUOTE == "blockquote"
LIST == "l"
LIST_ITEM == "li"
TABLE == "table"
CODE_BLOCK == "code"
HORIZONTAL_RULE == "hr"
PAGE_BREAK == "page"
MATH == "math"

LEFT == "left"
CENTER == "center"
RIGHT == "right"
JUSTIFY == "justify"
Undefined == "undefined"

\* A faulty variant of CommandOrder with LIST_ITEM ahead of CHECKBOX_LABEL
CommandOrderItemFirst ==
    << LIST, LIST_ITEM, CHECKBOX_LABEL, BLOCKQUOTE, HORIZONTAL_RULE, TABLE,
       CODE_BLOCK, PAGE_BREAK, MATH, HEADING, PARAGRAPH >>

\* The keys of MARKDOWN_COMMANDS in the order `for (... in ...)` visits them.
CommandOrder ==
    << CHECKBOX_LABEL, BLOCKQUOTE, HORIZONTAL_RULE, LIST, LIST_ITEM, TABLE,
       CODE_BLOCK, PAGE_BREAK, MATH, HEADING, PARAGRAPH >>

\* A faulty variant of Stackable in which no command is stackable
StackableNone(cmd) == FALSE

\* props.stackable
Stackable(cmd) == cmd \in {BLOCKQUOTE, LIST}

-----------------------------------------------------------------------------
(* The trigger regexes, matched against the remaining input.  A match is    *)
(* [ok, len, ...groups]; an optional group that did not take part is <<>>,  *)
(* one that did is <<its text>>.                                            *)

NoMatch == [ok |-> FALSE]

\* /^[^\S\n]*- \[([ x])]/
RegexCheckbox(s) ==
    LET k == CountIn(s, 1, HSpace)
    IN  IF /\ At(s, k + 1, <<"-", " ", "[">>)
           /\ k + 5 <= Len(s)
           /\ s[k + 4] \in {" ", "x"}
           /\ s[k + 5] = "]"
        THEN [ok |-> TRUE, len |-> k + 5, g1 |-> <<s[k + 4]>>]
        ELSE NoMatch

\* /^[^\S\n]*>/
RegexBlockquote(s) ==
    LET k == CountIn(s, 1, HSpace)
    IN  IF At(s, k + 1, <<">">>) THEN [ok |-> TRUE, len |-> k + 1] ELSE NoMatch

\* /^[^\S\n]*-{3,}/
RegexHorizontalRule(s) ==
    LET k == CountIn(s, 1, HSpace)
        d == CountIn(s, k + 1, {"-"})
    IN  IF d >= 3 THEN [ok |-> TRUE, len |-> k + d] ELSE NoMatch

\* The first group of the LIST_ITEM regex, a starred "(:? {4})": the length
\* of the longest run of groups, each an optional colon followed by four
\* spaces, that starts at position i.
RECURSIVE IndentRun(_, _)
IndentRun(s, i) ==
    LET c == IF i <= Len(s) /\ s[i] = ":" THEN 1 ELSE 0
    IN  IF At(s, i + c, <<" ", " ", " ", " ">>)
        THEN c + 4 + IndentRun(s, i + c + 4)
        ELSE 0

\* ([0-9]+\.|-) at position i: the length of the marker, or 0
MarkerLength(s, i) ==
    LET n == CountIn(s, i, Digit)
    IN  IF n >= 1 /\ At(s, i + n, <<".">>) THEN n + 1
        ELSE IF At(s, i, <<"-">>) THEN 1
        ELSE 0

\* The LIST_ITEM regex from its marker on: g is the length of group 1, k the
\* number of characters before the marker, m the length of the marker.
ListItemMatch(s, g, k, m) ==
    IF m >= 1 /\ k + m + 1 <= Len(s) /\ s[k + m + 1] \in HSpace
    THEN [ok |-> TRUE, len |-> k + m + 1,
          g1 |-> SubSeq(s, 1, g), g3 |-> SubSeq(s, k + 1, k + m)]
    ELSE NoMatch

ListItemAfter(s, g, k) == ListItemMatch(s, g, k, MarkerLength(s, k + 1))

ListItemIndented(s, g) == ListItemAfter(s, g, g + CountIn(s, g + 1, HSpace))

\* MARKDOWN_COMMANDS[LIST_ITEM].regex: the indent run (group 1), then
\* [^\S\n]*, then the marker ([0-9]+\.|-) (group 3), then one [^\S\n].
RegexListItem(s) == ListItemIndented(s, IndentRun(s, 1))

\* /^[^\S\n]*\|/
RegexTable(s) ==
    LET k == CountIn(s, 1, HSpace)
    IN  IF At(s, k + 1, <<"|">>) THEN [ok |-> TRUE, len |-> k + 1] ELSE NoMatch

\* /^[^\S\n]*FENCE([\s\S]*?)FENCE/ for a three-character fence
RegexFenced(s, fence) ==
    LET k == CountIn(s, 1, HSpace)
        j == IF At(s, k + 1, fence) THEN IndexOf(s, fence, k + 4) ELSE 0
    IN  IF j > 0
        THEN [ok |-> TRUE, len |-> j + 2, g1 |-> SubSeq(s, k + 4, j - 1)]
        ELSE NoMatch

\* /^[^\S\n]*```([\s\S]*?)```/
RegexCodeBlock(s) == RegexFenced(s, <<Backtick, Backtick, Backtick>>)

\* /^[^\S\n]*={3,}/
RegexPageBreak(s) ==
    LET k == CountIn(s, 1, HSpace)
        d == CountIn(s, k + 1, {"="})
    IN  IF d >= 3 THEN [ok |-> TRUE, len |-> k + d] ELSE NoMatch

\* /^[^\S\n]*\${3}([\s\S]*?)\${3}/
RegexMath(s) == RegexFenced(s, <<"$", "$", "$">>)

MaxHashes == 6

\* The groups of the HEADING regex: (.*?) grows until either (\{.*}) can
\* reach the end of the line or the end of the line itself is reached; b is
\* the place of the first "{" of the rest of the line, e the end of the line.
HeadingGroups(hashes, rest, e, b) ==
    LET braced == b > 0 /\ b < Len(rest) /\ rest[Len(rest)] = "}"
    IN  [ok |-> TRUE, len |-> e,
         g1 |-> hashes,
         g2 |-> IF braced THEN SubSeq(rest, 1, b - 1) ELSE rest,
         g3 |-> IF braced THEN <<SubSeq(rest, b, Len(rest))>> ELSE <<>>]

HeadingLine(hashes, rest, e) ==
    HeadingGroups(hashes, rest, e, IndexOf(rest, <<"{">>, 1))

\* k spaces, then h hashes
HeadingHashes(s, k, h) ==
    IF h >= 1
    THEN HeadingLine(SubSeq(s, k + 1, k + h),
                     SubSeq(s, k + h + 1, LineEnd(s, k + h + 1)),
                     LineEnd(s, k + h + 1))
    ELSE NoMatch

\* A faulty variant of HeadingAfter whose quantifier is {1,5}
HeadingAfterFive(s, k) ==
    HeadingHashes(s, k, Min(CountIn(s, k + 1, {"#"}), MaxHashes - 1))

HeadingAfter(s, k) == HeadingHashes(s, k, Min(CountIn(s, k + 1, {"#"}), MaxHashes))

\* /^[^\S\n]*(#{1,6})(.*?)(\{.*})?(?=\n|$)/
RegexHeading(s) == HeadingAfter(s, CountIn(s, 1, HSpace))

AlignMarkers ==
    { <<":", ":", ":">>, <<":", "-", "-">>, <<"-", "-", ":">>, <<":", "-", ":">> }

\* (:?(:::|:--|--:|:-:)[^\S\n]) at position i, followed by (?=\S); c is the
\* number of characters :? takes.
AlignGroupAt(s, i, c) ==
    /\ i + c + 4 <= Len(s)
    /\ c = 1 => s[i] = ":"
    /\ SubSeq(s, i + c, i + c + 2) \in AlignMarkers
    /\ s[i + c + 3] \in HSpace
    /\ s[i + c + 4] \notin Space

\* /^[^\S\n]*(:?(:::|:--|--:|:-:)[^\S\n])?(?=\S)/
RegexParagraph(s) ==
    LET k == CountIn(s, 1, HSpace)
    IN  IF AlignGroupAt(s, k + 1, 1)
        THEN [ok |-> TRUE, len |-> k + 5, g1 |-> <<SubSeq(s, k + 1, k + 5)>>]
        ELSE IF AlignGroupAt(s, k + 1, 0)
        THEN [ok |-> TRUE, len |-> k + 4, g1 |-> <<SubSeq(s, k + 1, k + 4)>>]
        ELSE IF k + 1 <= Len(s) /\ s[k + 1] \notin Space
        THEN [ok |-> TRUE, len |-> k, g1 |-> <<>>]
        ELSE NoMatch

\* props.regex && remaining.match(props.regex); LIST has no regex.
Regex(cmd, s) ==
    CASE cmd = CHECKBOX_LABEL -> RegexCheckbox(s)
      [] cmd = BLOCKQUOTE -> RegexBlockquote(s)
      [] cmd = HORIZONTAL_RULE -> RegexHorizontalRule(s)
      [] cmd = LIST -> NoMatch
      [] cmd = LIST_ITEM -> RegexListItem(s)
      [] cmd = TABLE -> RegexTable(s)
      [] cmd = CODE_BLOCK -> RegexCodeBlock(s)
      [] cmd = PAGE_BREAK -> RegexPageBreak(s)
      [] cmd = MATH -> RegexMath(s)
      [] cmd = HEADING -> RegexHeading(s)
      [] cmd = PARAGRAPH -> RegexParagraph(s)

-----------------------------------------------------------------------------
(* MarkdownRenderState: the text renderer *)

RECURSIVE Flatten(_)
\* The string a sequence of characters spells.
Flatten(s) == IF s = <<>> THEN "" ELSE s[1] \o Flatten(Tail(s))

RECURSIVE Join(_, _)
Join(ss, sep) ==
    IF ss = <<>> THEN <<>>
    ELSE IF Len(ss) = 1 THEN ss[1]
    ELSE ss[1] \o sep \o Join(Tail(ss), sep)

\* replaceInString(text, index, length, replacement), index 1-based here.
replaceInString(s, index, length, replacement) ==
    SubSeq(s, 1, index - 1) \o replacement \o Drop(s, index + length - 1)

\* What innerHTML makes of one character of a text node
EscapedChar(c) ==
    CASE c = "&" -> <<"&", "a", "m", "p", ";">>
      [] c = "<" -> <<"&", "l", "t", ";">>
      [] c = ">" -> <<"&", "g", "t", ";">>
      [] OTHER -> <<c>>

RECURSIVE escapeHTML(_)
\* escapeHTML(text)
escapeHTML(s) == IF s = <<>> THEN <<>> ELSE EscapedChar(s[1]) \o escapeHTML(Tail(s))

\* html.convert(math, { display }) followed by adaptor.innerHTML(node): the
\* fragment of the math collaborator, one opaque piece that is a function of
\* the formula and of the display flag.
MathFragment(math, display) ==
    "<mjx " \o (IF display THEN "display" ELSE "inline") \o ">"
        \o Flatten(math) \o "</mjx>"

HasNewline(s, from, to) == \E q \in from..to : s[q] = "\n"

\* The leftmost match of  open (.*?) close  at or after `from`, as
\* <<start of open, start of close>>, or <<0, 0>>; with `any` the group is
\* ([\S\s]*?) and may hold newlines.
RECURSIVE FindSpan(_, _, _, _, _)
FindSpan(s, open, close, from, any) ==
    LET i == IndexOf(s, open, from)
        j == IF i = 0 THEN 0 ELSE IndexOf(s, close, i + Len(open))
    IN  IF j = 0 THEN <<0, 0>>
        ELSE IF any \/ ~HasNewline(s, i + Len(open), j - 1) THEN <<i, j>>
        ELSE FindSpan(s, open, close, i + 1, any)

RECURSIVE ReplaceSpans(_, _, _, _)
\* The replacement of the match m, and of the matches after it.
ReplaceSpanAt(s, d, pre, post, m) ==
    IF m[1] = 0 THEN s
    ELSE SubSeq(s, 1, m[1] - 1)
            \o pre \o SubSeq(s, m[1] + Len(d), m[2] - 1) \o post
            \o ReplaceSpans(Drop(s, m[2] + Len(d) - 1), d, pre, post)

\* text.replace(/D([\S\s]*?)D/g, pre + '$1' + post) for a delimiter D
ReplaceSpans(s, d, pre, post) ==
    ReplaceSpanAt(s, d, pre, post, FindSpan(s, d, d, 1, TRUE))

\* The last "](" of the line ending at e, at or after `from`, which a ")"
\* follows on that line, or 0: where the greedy (.*) of the link regex ends.
RECURSIVE LastLinkMiddle(_, _, _)
LastLinkPick(s, e, j, later) ==
    IF later > 0 THEN later
    ELSE IF IndexOf(s, <<")">>, j + 2) \in 1..e THEN j
    ELSE 0

LastLinkMiddleAt(s, e, j) ==
    IF j = 0 \/ j + 1 > e THEN 0
    ELSE LastLinkPick(s, e, j, LastLinkMiddle(s, j + 1, e))

LastLinkMiddle(s, from, e) == LastLinkMiddleAt(s, e, IndexOf(s, <<"]", "(">>, from))

\* The leftmost match of /\[(.*)]\((.*?)\)/ at or after `from`:
\* <<index of "[", index of "](", index of ")">>, or all 0.
RECURSIVE MatchLink(_, _)
MatchLinkMiddle(s, i, j) ==
    IF j > 0 THEN <<i, j, IndexOf(s, <<")">>, j + 2)>> ELSE MatchLink(s, i + 1)

MatchLinkAt(s, i) ==
    IF i = 0 THEN <<0, 0, 0>>
    ELSE MatchLinkMiddle(s, i, LastLinkMiddle(s, i + 1, LineEnd(s, i + 1)))

MatchLink(s, from) == MatchLinkAt(s, IndexOf(s, <<"[">>, from))

RECURSIVE ReplaceLinks(_)
ReplaceLinkAt(s, m) ==
    IF m[1] = 0 THEN s
    ELSE SubSeq(s, 1, m[1] - 1)
            \o <<"<", "a", " ", "h", "r", "e", "f", "=", "\"">>
            \o SubSeq(s, m[2] + 2, m[3] - 1)
            \o <<"\"", ">">>
            \o SubSeq(s, m[1] + 1, m[2] - 1)
            \o <<"<", "/", "a", ">">>
            \o ReplaceLinks(Drop(s, m[3]))

\* text.replace(/\[(.*)]\((.*?)\)/g, '<a href="$2">$1</a>')
ReplaceLinks(s) == ReplaceLinkAt(s, MatchLink(s, 1))

\* text.replace(/ {2,}\n/g, '<br>')
RECURSIVE ReplaceBreaks(_)
ReplaceBreaks(s) ==
    LET n == CountIn(s, 1, {" "})
    IN  IF s = <<>> THEN <<>>
        ELSE IF n >= 2 /\ n + 1 <= Len(s) /\ s[n + 1] = "\n"
        THEN <<"<", "b", "r", ">">> \o ReplaceBreaks(Drop(s, n + 1))
        ELSE IF n >= 1 THEN SubSeq(s, 1, n) \o ReplaceBreaks(Drop(s, n))
        ELSE <<s[1]>> \o ReplaceBreaks(Tail(s))

\* The class of the escape regex, in which +-. is the range from "+" to ".".
Escapable ==
    { "\\", Backtick, "*", "_", "{", "}", "[", "]", "<", ">", "(", ")", "#",
      "+", ",", "-", ".", "!", "|" }

\* text.replace(/\\([...])/g, '$1')
RECURSIVE ReplaceEscapes(_)
ReplaceEscapes(s) ==
    IF s = <<>> THEN <<>>
    ELSE IF s[1] = "\\" /\ Len(s) >= 2 /\ s[2] \in Escapable
    THEN <<s[2]>> \o ReplaceEscapes(Drop(s, 2))
    ELSE <<s[1]>> \o ReplaceEscapes(Tail(s))

\* text.match(/!\[(.*?)]\((.*?)\)(\{.*?})?/) at or after `from`: <<index,
\* end of the match, index of "](", index of ")", 1 when group 3 took
\* part>>, or all 0.
RECURSIVE MatchImage(_, _)
\* q is the ")" and r the "}" that may end group 3, both 0 when missing
MatchImageEnd(s, i, e, j, q, r) ==
    IF r \in 1..e THEN <<i, r, j, q, 1>> ELSE <<i, q, j, q, 0>>

MatchImageClose(s, i, e, j, q) ==
    IF q \in 1..e
    THEN MatchImageEnd(s, i, e, j, q,
            IF At(s, q + 1, <<"{">>) THEN IndexOf(s, <<"}">>, q + 2) ELSE 0)
    ELSE MatchImage(s, i + 1)

MatchImageMiddle(s, i, e, j) ==
    MatchImageClose(s, i, e, j, IF j \in 1..e THEN IndexOf(s, <<")">>, j + 2) ELSE 0)

MatchImageAt(s, i) ==
    IF i = 0 THEN <<0, 0, 0, 0, 0>>
    ELSE MatchImageMiddle(s, i, LineEnd(s, i + 2), IndexOf(s, <<"]", "(">>, i + 2))

MatchImage(s, from) == MatchImageAt(s, IndexOf(s, <<"!", "[">>, from))

\* renderedImage of _renderImages
RenderedImage(alt, src, idAttr) ==
    LET img == <<"<", "i", "m", "g", " ", "s", "r", "c", "=", "\"">> \o src
                 \o <<"\"", " ", "a", "l", "t", "=", "\"">> \o alt \o <<"\"", " ">>
                 \o idAttr \o <<"/", ">">>
    IN  IF alt = <<>> THEN img
        ELSE <<"<", "f", "i", "g", "u", "r", "e", ">">> \o img
                \o <<"<", "f", "i", "g", "c", "a", "p", "t", "i", "o", "n", ">">>
                \o alt
                \o <<"<", "/", "f", "i", "g", "c", "a", "p", "t", "i", "o", "n", ">">>
                \o <<"<", "/", "f", "i", "g", "u", "r", "e", ">">>

RECURSIVE renderImages(_)
renderImageAt(s, m) ==
    IF m[1] = 0 THEN s
    ELSE renderImages(replaceInString(s, m[1], m[2] - m[1] + 1,
            RenderedImage(SubSeq(s, m[1] + 2, m[3] - 1),
                          SubSeq(s, m[3] + 2, m[4] - 1),
                          IF m[5] = 1
                          THEN <<"i", "d", "=", "\"">> \o SubSeq(s, m[4] + 2, m[2] - 1) \o <<"\"">>
                          ELSE <<>>)))

\* _renderImages(text)
renderImages(s) == renderImageAt(s, MatchImage(s, 1))

RECURSIVE renderInlineMath(_)
renderInlineMathAt(s, m) ==
    IF m[1] = 0 THEN s
    ELSE renderInlineMath(replaceInString(s, m[1], m[2] + 2 - m[1],
            << MathFragment(Trim(SubSeq(s, m[1] + 2, m[2] - 1)), FALSE) >>))

\* _renderInlineMath(text)
renderInlineMath(s) ==
    renderInlineMathAt(s, FindSpan(s, <<"$", "$">>, <<"$", "$">>, 1, FALSE))

\* A faulty variant of InlineChain that replaces italic spans before bold ones
InlineChainItalicFirst(s) ==
    LET t1 == renderInlineMath(renderImages(s))
        t2 == ReplaceSpans(t1, <<"*">>, <<"<", "i", ">">>, <<"<", "/", "i", ">">>)
        t3 == ReplaceSpans(t2, <<"*", "*">>, <<"<", "b", ">">>, <<"<", "/", "b", ">">>)
    IN  ReplaceEscapes(ReplaceBreaks(ReplaceLinks(t3)))

\* The replace chain of renderText, in the order of the source.
InlineChain(s) ==
    LET t1 == renderInlineMath(renderImages(s))
        t2 == ReplaceSpans(t1, <<"*", "*">>, <<"<", "b", ">">>, <<"<", "/", "b", ">">>)
        t3 == ReplaceSpans(t2, <<"_", "_">>, <<"<", "i", "n", "s", ">">>, <<"<", "/", "i", "n", "s", ">">>)
        t4 == ReplaceSpans(t3, <<"=", "=">>, <<"<", "m", "a", "r", "k", ">">>, <<"<", "/", "m", "a", "r", "k", ">">>)
        t5 == ReplaceSpans(t4, <<"~", "~">>, <<"<", "d", "e", "l", ">">>, <<"<", "/", "d", "e", "l", ">">>)
        t6 == ReplaceSpans(t5, <<"*">>, <<"<", "i", ">">>, <<"<", "/", "i", ">">>)
        t7 == ReplaceSpans(t6, <<"_">>, <<"<", "s", "u", "b", ">">>, <<"<", "/", "s", "u", "b", ">">>)
        t8 == ReplaceSpans(t7, <<"^">>, <<"<", "s", "u", "p", ">">>, <<"<", "/", "s", "u", "p", ">">>)
        t9 == ReplaceSpans(t8, <<Backtick>>, <<"<", "c", "o", "d", "e", ">">>, <<"<", "/", "c", "o", "d", "e", ">">>)
    IN  ReplaceEscapes(ReplaceBreaks(ReplaceLinks(t9)))

\* A faulty variant of renderText that writes at the front of the buffer
renderTextInFront(h, s, escaped) ==
    <<Flatten(IF escaped THEN escapeHTML(s) ELSE InlineChain(s)) \o "\n">> \o h

\* renderText(text, escaped): what it appends to _html
renderText(h, s, escaped) ==
    Append(h, Flatten(IF escaped THEN escapeHTML(s) ELSE InlineChain(s)) \o "\n")

-----------------------------------------------------------------------------
(* MarkdownRenderState: tags, tables, math *)

\* An attribute value: undefined, a boolean or a string.
Nil == <<"nil">>
Bool(b) == <<"bool", b>>
Str(str) == <<"str", str>>

\* One entry of the props of renderOpeningTag.
Prop(k, v) ==
    IF v[1] = "nil" THEN ""
    ELSE IF v[1] = "bool" THEN (IF v[2] THEN k ELSE "")
    ELSE k \o "=\"" \o v[2] \o "\""

RECURSIVE JoinProps(_)
\* Object.entries(attributes ?? {}).map(...).join(' ')
JoinProps(attributes) ==
    IF attributes = <<>> THEN ""
    ELSE IF Len(attributes) = 1 THEN Prop(attributes[1][1], attributes[1][2])
    ELSE Prop(attributes[1][1], attributes[1][2]) \o " " \o JoinProps(Tail(attributes))

OpeningTag(tag, props, selfClosing, whitespace) ==
    "<" \o tag
        \o (IF props # "" THEN " " \o props ELSE "")
        \o (IF selfClosing THEN "/" ELSE "")
        \o ">"
        \o (IF whitespace THEN "\n" ELSE "")

renderOpeningTag(h, tag, attributes, selfClosing, whitespace) ==
    Append(h, OpeningTag(tag, JoinProps(attributes), selfClosing, whitespace))

\* A faulty variant of renderClosingTag that writes the tag without its slash
renderClosingTagUnslashed(h, tag, whitespace) ==
    Append(h, "<" \o tag \o ">" \o (IF whitespace THEN "\n" ELSE ""))

renderClosingTag(h, tag, whitespace) ==
    Append(h, "</" \o tag \o ">" \o (IF whitespace THEN "\n" ELSE ""))

renderMath(h, math) == Append(h, MathFragment(math, TRUE))

\* MD_TABLE_CELL_REGEX = /^\s*([^|:]*)\s*\|/ : <<length of the match, group 1>>
\* or <<0, <<>>>>; k is the length of the leading \s*.
MatchTableCellAfter(row, k, n) ==
    IF At(row, k + n + 1, <<"|">>)
    THEN <<k + n + 1, SubSeq(row, k + 1, k + n)>>
    ELSE <<0, <<>>>>

MatchTableCellFrom(row, k) ==
    MatchTableCellAfter(row, k, CountNotIn(row, k + 1, {"|", ":"}))

MatchTableCell(row) == MatchTableCellFrom(row, CountIn(row, 1, Space))

\* MD_TABLE_SEPARATOR_REGEX = /^\s*(:?-+:?)\s*\|/ : k is the length of the
\* leading \s*, a of the first :?, d of -+, b of the second :?.
MatchTableSeparatorEnd(row, k, n, d) ==
    IF d >= 1 /\ At(row, k + n + CountIn(row, k + n + 1, Space) + 1, <<"|">>)
    THEN <<k + n + CountIn(row, k + n + 1, Space) + 1, SubSeq(row, k + 1, k + n)>>
    ELSE <<0, <<>>>>

MatchTableSeparatorDashes(row, k, a, d) ==
    MatchTableSeparatorEnd(row, k,
        a + d + (IF At(row, k + a + d + 1, <<":">>) THEN 1 ELSE 0), d)

MatchTableSeparatorColon(row, k, a) ==
    MatchTableSeparatorDashes(row, k, a, CountIn(row, k + a + 1, {"-"}))

MatchTableSeparatorFrom(row, k) ==
    MatchTableSeparatorColon(row, k, IF At(row, k + 1, <<":">>) THEN 1 ELSE 0)

MatchTableSeparator(row) == MatchTableSeparatorFrom(row, CountIn(row, 1, Space))

\* MD_TABLE_ID_REGEX = /^[^\S\n]*(\{.*?})(?=\n|$)/ on what is left of a row
MatchTableIdFrom(row, k) ==
    IF /\ At(row, k + 1, <<"{">>)
       /\ Len(row) >= k + 2
       /\ row[Len(row)] = "}"
       /\ ~HasNewline(row, k + 1, Len(row))
    THEN <<Len(row), SubSeq(row, k + 1, Len(row))>>
    ELSE <<0, <<>>>>

MatchTableId(row) == MatchTableIdFrom(row, CountIn(row, 1, HSpace))

\* The while loop of _parseTableCells: <<cells, what is left of the row>>
RECURSIVE ParseCells(_, _, _)
ParseCellsAt(row, separator, cells, m) ==
    IF Len(row) > 0 /\ m[1] > 0
    THEN ParseCells(Drop(row, m[1]), separator, Append(cells, m[2]))
    ELSE <<cells, row>>

ParseCells(row, separator, cells) ==
    ParseCellsAt(row, separator, cells,
        IF separator THEN MatchTableSeparator(row) ELSE MatchTableCell(row))

\* The end of _parseTableCells: r is <<cells, what is left of the row>>
ParseCellsEnd(r, end) == IF end[1] > 0 THEN Append(r[1], end[2]) ELSE r[1]

ParseCellsRest(r, withEnd) ==
    ParseCellsEnd(r, IF withEnd THEN MatchTableId(r[2]) ELSE <<0, <<>>>>)

\* _parseTableCells(row, regex, endRegex)
parseTableCells(row, separator, withEnd) ==
    ParseCellsRest(ParseCells(Tail(row), separator, <<>>), withEnd)

\* The alignment renderTable derives from one separator cell.
SeparatorAlignment(sep) ==
    LET left == StartsWith(Trim(sep), <<":">>)
        right == EndsWith(Trim(sep), <<":">>)
    IN  IF left /\ ~right THEN LEFT
        ELSE IF ~left /\ right THEN RIGHT
        ELSE IF left /\ right THEN CENTER
        ELSE LEFT

RECURSIVE RenderCells(_, _, _, _, _)
\* headers.forEach / r.forEach of renderTable, from column i on
RenderCells(h, cells, alignment, tag, i) ==
    IF i > Len(cells) THEN h
    ELSE RenderCells(
            renderClosingTag(
                renderText(
                    renderOpeningTag(h, tag,
                        << <<"style", Str("text-align: " \o alignment[i] \o ";")>> >>,
                        FALSE, TRUE),
                    IF tag = "th" THEN Trim(cells[i]) ELSE cells[i], FALSE),
                tag, TRUE),
            cells, alignment, tag, i + 1)

RECURSIVE RenderRows(_, _, _)
\* table.forEach of renderTable
RenderRows(h, table, alignment) ==
    IF table = <<>> THEN h
    ELSE RenderRows(
            renderClosingTag(
                RenderCells(renderOpeningTag(h, "tr", <<>>, FALSE, TRUE),
                            table[1], alignment, "td", 1),
                "tr", TRUE),
            Tail(table), alignment)

\* renderTable once the rows are parsed
TableMarkup(h, headers, tid, alignment, table) ==
    LET h1 == renderOpeningTag(h, "table", << <<"id", tid>> >>, FALSE, TRUE)
        h2 == renderOpeningTag(h1, "thead", <<>>, FALSE, TRUE)
        h3 == renderOpeningTag(h2, "tr", <<>>, FALSE, TRUE)
        h4 == RenderCells(h3, headers, alignment, "th", 1)
        h5 == renderClosingTag(h4, "tr", TRUE)
        h6 == renderClosingTag(h5, "thead", TRUE)
        h7 == renderOpeningTag(h6, "tbody", <<>>, FALSE, TRUE)
        h8 == RenderRows(h7, table, alignment)
        h9 == renderClosingTag(h8, "tbody", TRUE)
    IN  renderClosingTag(h9, "table", TRUE)

TableFailed(h) == [ok |-> FALSE, html |-> h]

TableBody(h, headers, tid, alignment, table) ==
    IF \E i \in DOMAIN table : Len(table[i]) # Len(headers)
    THEN TableFailed(h)
    ELSE [ok |-> TRUE, html |-> TableMarkup(h, headers, tid, alignment, table)]

TableSeparators(h, rows, headers, tid, separators) ==
    IF Len(separators) # Len(headers) THEN TableFailed(h)
    ELSE TableBody(h, headers, tid,
            [i \in DOMAIN separators |-> SeparatorAlignment(separators[i])],
            [i \in 1..(Len(rows) - 2) |-> parseTableCells(rows[i + 2], FALSE, FALSE)])

\* parsed is the header row's cells, the last of which may be the {id}
TableHeaders(h, rows, parsed) ==
    LET last == parsed[Len(parsed)]
        hasId == /\ parsed # <<>>
                 /\ StartsWith(last, <<"{">>)
                 /\ EndsWith(last, <<"}">>)
    IN  TableSeparators(h, rows,
            IF hasId THEN SubSeq(parsed, 1, Len(parsed) - 1) ELSE parsed,
            IF hasId THEN Str(Flatten(SubSeq(last, 2, Len(last) - 1))) ELSE Nil,
            parseTableCells(rows[2], TRUE, FALSE))

\* renderTable(rows): [ok, html]
renderTable(h, rows) ==
    IF Len(rows) < 2 THEN TableFailed(h)
    ELSE TableHeaders(h, rows, parseTableCells(rows[1], FALSE, TRUE))

-----------------------------------------------------------------------------
(* MARKDOWN_COMMANDS: the handlers *)

\* A MarkdownCommandInstance
Instance(type, state) == [type |-> type, state |-> state]

\* The state {} of a command without onMatch
NoState == [none |-> TRUE]

\* A faulty variant of uniqueId that returns _id without incrementing it
uniqueIdStuck(n) == [value |-> n, id |-> n]

\* uniqueId() when _id is n: the value returned and the new _id
uniqueId(n) == [value |-> n, id |-> n + 1]

\* The pairs LIST_ITEM.onMatch returns: `count` times a LIST and a LIST_ITEM,
\* the items taking their ids from uniqueId() in order, _id being n before.
RECURSIVE ListPairs(_, _, _)
ListPairs(count, ordered, n) ==
    IF count = 0 THEN [commands |-> <<>>, id |-> n, issued |-> <<>>]
    ELSE LET u == uniqueId(n)
             rest == ListPairs(count - 1, ordered, u.id)
         IN  [commands |-> << Instance(LIST, [ordered |-> ordered]),
                              Instance(LIST_ITEM, [id |-> u.value]) >>
                              \o rest.commands,
              id |-> rest.id,
              issued |-> <<u.value>> \o rest.issued]

IndentWidth == 4

\* The value PARAGRAPH.onMatch looks up under match[1]?.substring(0, 3)
AlignmentOf(g1) ==
    IF g1 = <<>> THEN Undefined
    ELSE CASE Take(g1[1], 3) = <<":", ":", ":">> -> JUSTIFY
           [] Take(g1[1], 3) = <<":", "-", "-">> -> LEFT
           [] Take(g1[1], 3) = <<"-", "-", ":">> -> RIGHT
           [] Take(g1[1], 3) = <<":", "-", ":">> -> CENTER
           [] OTHER -> Undefined

Matched(cmds, n, issuedNow) ==
    [thrown |-> FALSE, commands |-> cmds, id |-> n, issued |-> issuedNow]

Thrown(n) == [thrown |-> TRUE, commands |-> <<>>, id |-> n, issued |-> <<>>]

\* A faulty variant of One whose instance depends on the id counter
OneByCounter(cmd, state, n) ==
    Matched(IF n % 2 = 1 THEN <<>> ELSE <<Instance(cmd, state)>>, n, <<>>)

\* The default of _lineCommands: one instance of the command
One(cmd, state, n) == Matched(<<Instance(cmd, state)>>, n, <<>>)

ListItemPairs(r) == Matched(r.commands, r.id, r.issued)

\* A faulty variant of ListItemOnMatch that leaves out the innermost item
ListItemOnMatchBare(m, n) ==
    IF Len(m.g1) % IndentWidth # 0 THEN Thrown(n)
    ELSE Matched(
            SubSeq(ListPairs(Len(m.g1) \div IndentWidth + 1,
                             EndsWith(m.g3, <<".">>), n).commands,
                   1, 2 * (Len(m.g1) \div IndentWidth) + 1),
            n + Len(m.g1) \div IndentWidth + 1,
            [j \in 1..(Len(m.g1) \div IndentWidth + 1) |-> n + j - 1])

\* A faulty variant of ListItemOnMatch that returns one pair too few
ListItemOnMatchShort(m, n) ==
    IF Len(m.g1) % IndentWidth # 0 THEN Thrown(n)
    ELSE ListItemPairs(
            ListPairs(Len(m.g1) \div IndentWidth, EndsWith(m.g3, <<".">>), n))

\* LIST_ITEM.onMatch: Array(indent + 1) throws a RangeError unless indent is
\* a whole number.
ListItemOnMatch(m, n) ==
    IF Len(m.g1) % IndentWidth # 0 THEN Thrown(n)
    ELSE ListItemPairs(
            ListPairs(Len(m.g1) \div IndentWidth + 1, EndsWith(m.g3, <<".">>), n))

\* A faulty variant of CheckboxOnMatch that compares match[1] with 'X'
CheckboxOnMatchUpper(m, u) ==
    Matched(<<Instance(CHECKBOX_LABEL,
                [id |-> u.value, checked |-> (m.g1 = <<"X">>), label |-> <<>>])>>,
            u.id, <<u.value>>)

CheckboxOnMatch(m, u) ==
    Matched(<<Instance(CHECKBOX_LABEL,
                [id |-> u.value, checked |-> (m.g1 = <<"x">>), label |-> <<>>])>>,
            u.id, <<u.value>>)

\* props.onMatch?.call(undefined, this._state, match) ?? [{type: cmd, state: {}}]
\* when _id is n: [thrown, commands, id, issued]
onMatch(cmd, m, n) ==
    CASE cmd = CHECKBOX_LABEL -> CheckboxOnMatch(m, uniqueId(n))
      [] cmd = LIST_ITEM -> ListItemOnMatch(m, n)
      [] cmd = TABLE -> One(TABLE, [rows |-> <<>>], n)
      [] cmd = CODE_BLOCK -> One(CODE_BLOCK, [code |-> Trim(m.g1)], n)
      [] cmd = MATH -> One(MATH, [math |-> m.g1], n)
      [] cmd = HEADING ->
            One(HEADING,
                [n |-> Len(m.g1), text |-> m.g2,
                 id |-> IF m.g3 = <<>> THEN <<>>
                        ELSE <<SubSeq(m.g3[1], 2, Len(m.g3[1]) - 1)>>], n)
      [] cmd = PARAGRAPH ->
            One(PARAGRAPH, [text |-> <<>>, align |-> AlignmentOf(m.g1)], n)
      [] OTHER -> One(cmd, NoState, n)

\* A faulty variant of HasIsEqualToFirst: HEADING without isEqualToFirst
HasIsEqualToFirstButHeading(cmd) ==
    cmd \in {CHECKBOX_LABEL, LIST, LIST_ITEM, PAGE_BREAK, PARAGRAPH}

\* The commands that define isEqualToFirst
HasIsEqualToFirst(cmd) ==
    cmd \in {CHECKBOX_LABEL, LIST, LIST_ITEM, PAGE_BREAK, HEADING, PARAGRAPH}

\* A faulty variant of IsLast that takes every instance for the last of its kind
IsLastAlways(cmd, newStack) == TRUE

\* newStack.map(c => c.type).lastIndexOf(cmd) === 0
IsLast(cmd, newStack) ==
    /\ newStack # <<>>
    /\ newStack[1].type = cmd
    /\ \A i \in 2..Len(newStack) : newStack[i].type # cmd

\* A faulty variant of isEqualToFirst that accepts every list item
isEqualToFirstItemAlways(cmd, cmd_state, oldStack, newStack) ==
    CASE cmd = LIST ->
            ~IsLast(cmd, newStack) \/ oldStack[1].state = cmd_state
      [] cmd = LIST_ITEM -> TRUE
      [] cmd = PARAGRAPH ->
            cmd_state.align = Undefined \/ oldStack[1].state.align = cmd_state.align
      [] OTHER -> FALSE

\* A faulty variant of isEqualToFirst that accepts every list
isEqualToFirstListAlways(cmd, cmd_state, oldStack, newStack) ==
    CASE cmd = LIST -> TRUE
      [] cmd = LIST_ITEM ->
            ~IsLast(cmd, newStack) \/ oldStack[1].state = cmd_state
      [] cmd = PARAGRAPH ->
            cmd_state.align = Undefined \/ oldStack[1].state.align = cmd_state.align
      [] OTHER -> FALSE

\* A faulty variant of isEqualToFirst that accepts every paragraph
isEqualToFirstParagraphAlways(cmd, cmd_state, oldStack, newStack) ==
    CASE cmd \in {LIST, LIST_ITEM} ->
            ~IsLast(cmd, newStack) \/ oldStack[1].state = cmd_state
      [] cmd = PARAGRAPH -> TRUE
      [] OTHER -> FALSE

\* A faulty variant of isEqualToFirst in which no paragraph continues another
isEqualToFirstParagraphNever(cmd, cmd_state, oldStack, newStack) ==
    CASE cmd \in {LIST, LIST_ITEM} ->
            ~IsLast(cmd, newStack) \/ oldStack[1].state = cmd_state
      [] OTHER -> FALSE

\* props.isEqualToFirst(cmd_state, oldStack, newStack)
isEqualToFirst(cmd, cmd_state, oldStack, newStack) ==
    CASE cmd \in {LIST, LIST_ITEM} ->
            ~IsLast(cmd, newStack) \/ oldStack[1].state = cmd_state
      [] cmd = PARAGRAPH ->
            cmd_state.align = Undefined \/ oldStack[1].state.align = cmd_state.align
      [] OTHER -> FALSE

\* props.onStart?.call(undefined, this, instance.state)
onStart(h, cmd, cmd_state) ==
    CASE cmd = BLOCKQUOTE -> renderOpeningTag(h, "blockquote", <<>>, FALSE, TRUE)
      [] cmd = LIST ->
            renderOpeningTag(h, IF cmd_state.ordered THEN "ol" ELSE "ul",
                             <<>>, FALSE, TRUE)
      [] cmd = LIST_ITEM -> renderOpeningTag(h, "li", <<>>, FALSE, TRUE)
      [] cmd = PAGE_BREAK ->
            renderClosingTag(
                renderOpeningTag(h, "div", << <<"class", Str("pagebreak")>> >>,
                                 FALSE, TRUE),
                "div", TRUE)
      [] OTHER -> h

\* CHECKBOX_LABEL.onEnd
CheckboxOnEnd(h, cmd_state, inputId) ==
    renderOpeningTag(
        renderClosingTag(
            renderText(
                renderOpeningTag(
                    renderOpeningTag(h, "input",
                        << <<"id", Str(inputId)>>, <<"type", Str("checkbox")>>,
                           <<"checked", Bool(cmd_state.checked)>> >>,
                        TRUE, TRUE),
                    "label", << <<"for", Str(inputId)>> >>, FALSE, TRUE),
                Trim(cmd_state.label), FALSE),
            "label", TRUE),
        "br", <<>>, FALSE, TRUE)

\* A faulty variant of TableOnEnd without the paragraph of the raw rows
TableOnEndSilent(h, cmd_state, t) == t.html

\* TABLE.onEnd: t is what renderTable(cmd.rows) made of the rows
TableOnEnd(h, cmd_state, t) ==
    IF t.ok THEN t.html
    ELSE renderClosingTag(
            renderText(renderOpeningTag(h, "p", <<>>, FALSE, TRUE),
                       Join(cmd_state.rows, <<"<", "b", "r", ">">>), FALSE),
            "p", TRUE)

\* CODE_BLOCK.onEnd
CodeOnEnd(h, cmd_state) ==
    renderClosingTag(
        renderClosingTag(
            renderText(
                renderOpeningTag(renderOpeningTag(h, "pre", <<>>, FALSE, TRUE),
                                 "code", <<>>, FALSE, FALSE),
                cmd_state.code, TRUE),
            "code", FALSE),
        "pre", TRUE)

\* HEADING.onEnd
HeadingOnEnd(h, cmd_state, tag) ==
    renderClosingTag(
        renderText(
            renderOpeningTag(h, tag,
                << <<"id", IF cmd_state.id = <<>> THEN Nil
                           ELSE Str(Flatten(cmd_state.id[1]))>> >>,
                FALSE, TRUE),
            cmd_state.text, FALSE),
        tag, TRUE)

\* PARAGRAPH.onEnd
ParagraphOnEnd(h, cmd_state) ==
    renderClosingTag(
        renderText(
            renderOpeningTag(h, "p",
                << <<"style",
                     Str("text-align: "
                            \o (IF cmd_state.align = Undefined THEN LEFT
                                ELSE cmd_state.align)
                            \o ";")>> >>,
                FALSE, TRUE),
            cmd_state.text, FALSE),
        "p", TRUE)

\* props.onEnd?.call(undefined, this, instance.state)
onEnd(h, cmd, cmd_state) ==
    CASE cmd = CHECKBOX_LABEL ->
            CheckboxOnEnd(h, cmd_state, "input_checkbox_" \o ToString(cmd_state.id))
      [] cmd = BLOCKQUOTE -> renderClosingTag(h, "blockquote", TRUE)
      [] cmd = HORIZONTAL_RULE -> renderOpeningTag(h, "hr", <<>>, TRUE, TRUE)
      [] cmd = LIST ->
            renderClosingTag(h, IF cmd_state.ordered THEN "ol" ELSE "ul", TRUE)
      [] cmd = LIST_ITEM -> renderClosingTag(h, "li", TRUE)
      [] cmd = TABLE -> TableOnEnd(h, cmd_state, renderTable(h, cmd_state.rows))
      [] cmd = CODE_BLOCK -> CodeOnEnd(h, cmd_state)
      [] cmd = MATH -> renderMath(h, cmd_state.math)
      [] cmd = HEADING -> HeadingOnEnd(h, cmd_state, "h" \o ToString(cmd_state.n))
      [] cmd = PARAGRAPH -> ParagraphOnEnd(h, cmd_state)
      [] OTHER -> h

\* A faulty variant of onTextLine in which a kind without a handler writes
\* the text to the buffer
onTextLineEcho(h, cmd, cmd_state, t) ==
    CASE cmd = CHECKBOX_LABEL ->
            [html |-> h, state |-> [cmd_state EXCEPT !.label = t]]
      [] cmd = LIST_ITEM ->
            [html |-> renderText(h, t, FALSE), state |-> cmd_state]
      [] cmd = TABLE ->
            [html |-> h,
             state |-> [cmd_state EXCEPT !.rows = Append(@, <<"|">> \o t)]]
      [] cmd = PARAGRAPH ->
            [html |-> h,
             state |-> [cmd_state EXCEPT !.text = @ \o t \o <<"\n">>]]
      [] OTHER -> [html |-> renderText(h, t, FALSE), state |-> cmd_state]

\* A faulty variant of onTextLine whose table keeps its last row only
onTextLineLastRow(h, cmd, cmd_state, t) ==
    CASE cmd = CHECKBOX_LABEL ->
            [html |-> h, state |-> [cmd_state EXCEPT !.label = t]]
      [] cmd = LIST_ITEM ->
            [html |-> renderText(h, t, FALSE), state |-> cmd_state]
      [] cmd = TABLE ->
            [html |-> h,
             state |-> [cmd_state EXCEPT !.rows = << <<"|">> \o t >>]]
      [] cmd = PARAGRAPH ->
            [html |-> h,
             state |-> [cmd_state EXCEPT !.text = @ \o t \o <<"\n">>]]
      [] OTHER -> [html |-> h, state |-> cmd_state]

\* props.onTextLine?.call(undefined, this._state, instance.state, text):
\* the buffer and the instance's state afterwards
onTextLine(h, cmd, cmd_state, t) ==
    CASE cmd = CHECKBOX_LABEL ->
            [html |-> h, state |-> [cmd_state EXCEPT !.label = t]]
      [] cmd = LIST_ITEM ->
            [html |-> renderText(h, t, FALSE), state |-> cmd_state]
      [] cmd = TABLE ->
            [html |-> h,
             state |-> [cmd_state EXCEPT !.rows = Append(@, <<"|">> \o t)]]
      [] cmd = PARAGRAPH ->
            [html |-> h,
             state |-> [cmd_state EXCEPT !.text = @ \o t \o <<"\n">>]]
      [] OTHER -> [html |-> h, state |-> cmd_state]

-----------------------------------------------------------------------------
(* MarkdownRenderer *)

RECURSIVE FirstMatching(_, _)
\* The for-in loop of _lineCommands: the place in CommandOrder, from k on, of
\* the first command whose regex matches `remaining`, or 0.
FirstMatching(remaining, k) ==
    IF k > Len(CommandOrder) THEN 0
    ELSE IF Regex(CommandOrder[k], remaining).ok THEN k
    ELSE FirstMatching(remaining, k + 1)

Scanned(thrown, remaining, matched, cmds, n, iss) ==
    [thrown |-> thrown, remaining |-> remaining, matched |-> matched,
     commands |-> cmds, id |-> n, issued |-> iss]

RECURSIVE ScanCommands(_, _, _, _, _)
\* After onMatch returned r for the command cmd
ScanResult(remaining, matched, cmds, iss, cmd, r) ==
    IF r.thrown THEN Scanned(TRUE, remaining, matched, cmds, r.id, iss)
    ELSE IF Stackable(cmd)
    THEN ScanCommands(remaining, matched, cmds \o r.commands, r.id, iss \o r.issued)
    ELSE Scanned(FALSE, remaining, matched, cmds \o r.commands, r.id, iss \o r.issued)

\* The body of `if (props.regex && (match = ...) !== null)` for the match m
ScanMatch(remaining, matched, cmds, n, iss, cmd, m) ==
    ScanResult(Drop(remaining, m.len), matched + m.len, cmds, iss, cmd,
               onMatch(cmd, m, n))

ScanAt(remaining, matched, cmds, n, iss, k) ==
    IF k = 0 THEN Scanned(FALSE, remaining, matched, cmds, n, iss)
    ELSE ScanMatch(remaining, matched, cmds, n, iss,
                   CommandOrder[k], Regex(CommandOrder[k], remaining))

\* The do-while loop of _lineCommands; `matched` is matched.length
ScanCommands(remaining, matched, cmds, n, iss) ==
    ScanAt(remaining, matched, cmds, n, iss, FirstMatching(remaining, 1))

\* A faulty variant of LineText whose cursor stops at the end of the line
LineTextAtNewline(cur, sc, t) ==
    [thrown |-> sc.thrown, text |-> t, commands |-> sc.commands,
     cursor |-> cur + sc.matched + Len(t),
     id |-> sc.id, issued |-> sc.issued]

\* The end of _lineCommands: the text up to the end of the line, the cursor
LineText(cur, sc, t) ==
    [thrown |-> sc.thrown, text |-> t, commands |-> sc.commands,
     cursor |-> cur + sc.matched + Len(t) + 1,
     id |-> sc.id, issued |-> sc.issued]

LineResult(cur, sc) ==
    LineText(cur, sc, SubSeq(sc.remaining, 1, LineEnd(sc.remaining, 1)))

\* _lineCommands() when _input is `in`, _cursor is cur and _id is n
lineCommands(in, cur, n) ==
    LineResult(cur, ScanCommands(Drop(in, cur), 0, <<>>, n, <<>>))

\* A faulty variant of SharedPrefix that shares nothing
SharedPrefixNone(oldCommands, cmds, index) == index

\* A faulty variant of SharedPrefix whose loop has lost both its breaks
SharedPrefixUnbroken(oldCommands, cmds, index) ==
    Min(Len(oldCommands), Len(cmds))

RECURSIVE SharedPrefix(_, _, _)
\* The first while loop of _diffCommands, from `index` on
SharedPrefix(oldCommands, cmds, index) ==
    IF /\ index < Min(Len(oldCommands), Len(cmds))
       /\ oldCommands[index + 1].type = cmds[index + 1].type
       /\ HasIsEqualToFirst(cmds[index + 1].type) =>
            isEqualToFirst(cmds[index + 1].type, cmds[index + 1].state,
                           Drop(oldCommands, index), Drop(cmds, index))
    THEN SharedPrefix(oldCommands, cmds, index + 1)
    ELSE index

\* The MarkdownRenderState: its buffer, its stack, and the history of calls
RenderState(h, st, lg) == [html |-> h, stack |-> st, log |-> lg]

\* The number of pushCommand calls so far
Pushes(lg) == Cardinality({i \in DOMAIN lg : lg[i].op = "push"})

\* A faulty variant of popCommand that pops without calling onEnd
popCommandUnended(rs) ==
    RenderState(rs.html, SubSeq(rs.stack, 1, Len(rs.stack) - 1), rs.log)

\* popCommand()
popCommand(rs) ==
    IF rs.stack = <<>> THEN rs
    ELSE RenderState(
            onEnd(rs.html, rs.stack[Len(rs.stack)].type, rs.stack[Len(rs.stack)].state),
            SubSeq(rs.stack, 1, Len(rs.stack) - 1),
            Append(rs.log, [op |-> "pop",
                            type |-> rs.stack[Len(rs.stack)].type,
                            serial |-> rs.stack[Len(rs.stack)].serial]))

\* pushCommand(instance); the frame keeps the number of the push that made it
pushCommand(rs, instance) ==
    RenderState(
        onStart(rs.html, instance.type, instance.state),
        Append(rs.stack, [type |-> instance.type, state |-> instance.state,
                          serial |-> Pushes(rs.log) + 1]),
        Append(rs.log, [op |-> "push", type |-> instance.type,
                        serial |-> Pushes(rs.log) + 1]))

RECURSIVE PopTimes(_, _)
\* The for loop of _diffCommands
PopTimes(rs, count) ==
    IF count <= 0 THEN rs ELSE PopTimes(popCommand(rs), count - 1)

RECURSIVE PushAll(_, _)
\* commands.slice(diff).forEach(c => this._state.pushCommand(c))
PushAll(rs, cmds) ==
    IF cmds = <<>> THEN rs ELSE PushAll(pushCommand(rs, cmds[1]), Tail(cmds))

DiffAt(rs, index) ==
    [index |-> index, rs |-> PopTimes(rs, Len(rs.stack) - index)]

\* _diffCommands(commands): the index returned and the render state left
diffCommands(rs, cmds) == DiffAt(rs, SharedPrefix(rs.stack, cmds, 0))

\* A faulty variant of PushFrom that pushes the innermost new instance first
PushFromInnermost(d, cmds) ==
    PushAll(d.rs, [i \in 1..(Len(cmds) - d.index) |-> cmds[Len(cmds) + 1 - i]])

\* commands.slice(diff).forEach(...) with the result d of _diffCommands
PushFrom(d, cmds) == PushAll(d.rs, Drop(cmds, d.index))

TextLine(rs, r) ==
    RenderState(r.html, [rs.stack EXCEPT ![Len(rs.stack)].state = r.state], rs.log)

\* peekCommand() and the onTextLine of the instance on top of the stack
DispatchText(rs, t) ==
    IF rs.stack = <<>> THEN rs
    ELSE TextLine(rs, onTextLine(rs.html, rs.stack[Len(rs.stack)].type,
                                 rs.stack[Len(rs.stack)].state, t))

Store(rs) ==
    /\ html' = rs.html
    /\ stack' = rs.stack
    /\ log' = rs.log

\* One iteration of the while loop of render(), lc being the result of
\* _lineCommands(); an exception leaves render() for its caller.
Iterate(lc) ==
    IF lc.thrown
    THEN /\ pc' = "thrown"
         /\ id' = lc.id
         /\ UNCHANGED <<cursor, html, stack, text, commands, issued, log>>
    ELSE /\ pc' = pc
         /\ cursor' = lc.cursor
         /\ id' = lc.id
         /\ issued' = issued \o lc.issued
         /\ text' = lc.text
         /\ commands' = lc.commands
         /\ Store(DispatchText(
                PushFrom(diffCommands(RenderState(html, stack, log), lc.commands),
                         lc.commands),
                lc.text))

\* render(): one pass of `while (this._cursor < this._input.length)`
RenderLine ==
    /\ pc = "render"
    /\ cursor < Len(input)
    /\ Iterate(lineCommands(input, cursor, id))
    /\ UNCHANGED <<input, rendered>>

\* render(): the final this._diffCommands([]) and the return
Drain ==
    /\ pc = "render"
    /\ cursor >= Len(input)
    /\ Store(diffCommands(RenderState(html, stack, log), <<>>).rs)
    /\ pc' = "done"
    /\ UNCHANGED <<input, cursor, id, text, commands, issued, rendered>>

Next == RenderLine \/ Drain

\* new MarkdownRenderer(input) for an input out of `inputs`
InitOn(inputs) ==
    /\ input \in inputs
    /\ cursor = 0
    /\ id = 0
    /\ html = <<>>
    /\ stack = <<>>
    /\ pc = "render"
    /\ text = <<>>
    /\ commands = <<>>
    /\ issued = <<>>
    /\ log = <<>>
    /\ rendered = <<>>

-----------------------------------------------------------------------------
(* Inputs *)

MaxLines == 2

\* The inputs of at most `count` lines out of `lines`
InputsOf(lines, count) ==
    { Join(ls, <<"\n">>) : ls \in UNION { [1..k -> lines] : k \in 0..count } }

\* Lines that between them trigger every command, and lines that trigger none
Lines ==
    { <<"#", " ", "a">>,
      <<"#", "#", "b">>,
      <<"#", "#", "#", "#", "#", "#", "#", "c">>,
      <<"-", "-", "-">>,
      <<"-", "-", "-", "-">>,
      <<"-", "-", "-", " ", "x">>,
      <<"-", " ", "[", " ", "]", " ", "x">>,
      <<"-", " ", "[", "x", "]", " ", "y">>,
      <<">">>,
      <<">", " ", "-", " ", "a">>,
      <<">", ">", " ", "x">>,
      <<"-", " ", "a">>,
      <<" ", " ", " ", " ", "-", " ", "b">>,
      <<"1", ".", " ", "c">>,
      <<":", " ", " ", " ", " ", "-", " ", "d">>,
      <<" ", " ", "-", " ", "e">>,
      <<>>,
      <<" ">>,
      <<"t">>,
      <<":", ":", ":", " ", "j">>,
      <<"=", "=", "=">>,
      <<Backtick, Backtick, Backtick, "c", Backtick, Backtick, Backtick>>,
      <<"$", "$", "$", "m", "$", "$", "$">>,
      <<"|", "a", "|">> }

Init == InitOn(InputsOf(Lines, MaxLines))

Spec == Init /\ [][Next]_vars

\* Heading lines: n hashes for n up to one more than the heading regex
\* takes, then one space or none, then a word.
Hashes(n) == [i \in 1..n |-> "#"]

HeadingInputs ==
    { Hashes(n) \o pad \o <<"a">> :
        n \in 1..(MaxHashes + 1), pad \in {<<>>, <<" ">>} }

MaxHeadingLines == 2

InitHeading == InitOn(InputsOf(HeadingInputs, MaxHeadingLines))

SpecHeading == InitHeading /\ [][Next]_vars

\* Unordered list lines: the k-th line of an input is the k-th letter behind
\* a dash, indented by four spaces per level.
Letters == <<"a", "b", "c", "d", "e", "f", "g", "h">>

Indent(level) == [i \in 1..(level * IndentWidth) |-> " "]

ListLine(level, k) == Indent(level) \o <<"-", " ", Letters[k]>>

MaxLevel == 2

MaxListLines == 5

ListInput(levels) ==
    Join([k \in DOMAIN levels |-> ListLine(levels[k], k)], <<"\n">>)

ListInputs ==
    { ListInput(levels) :
        levels \in UNION { [1..n -> 0..MaxLevel] : n \in 0..MaxListLines } }

InitList == InitOn(ListInputs)

SpecList == InitList /\ [][Next]_vars

-----------------------------------------------------------------------------
(* Properties *)

\* The pops and the pushes of a history of calls
Pops(lg) == {i \in DOMAIN lg : lg[i].op = "pop"}

PushesOf(lg, type) == {i \in DOMAIN lg : lg[i].op = "push" /\ lg[i].type = type}

\* The instances that carry an id
HasId(instance) == instance.type \in {LIST_ITEM, CHECKBOX_LABEL}

\* C1: after render() has processed a line, the stack of open commands is as
\* long as the sequence of instances classified for that line and has the
\* same kind at every position.
StackMatchesLine ==
    pc = "render" =>
        /\ Len(stack) = Len(commands)
        /\ \A i \in DOMAIN stack : stack[i].type = commands[i].type

\* A line has been processed whose reconciliation kept the outermost frame,
\* closed a frame and then opened another one.
StackRebuiltOverKeptFrame ==
    /\ pc = "render"
    /\ Len(stack) >= 2
    /\ \E i \in Pops(log) :
        /\ stack[1].serial < log[i].serial
        /\ log[i].serial < stack[Len(stack)].serial

\* C2: render() never throws, whatever the input.
RenderNeverThrows == pc # "thrown"

\* C3: when render() returns the stack is empty and every instance ever
\* pushed has been ended exactly once, after its push; the final drain ends
\* the frames that are left innermost first.
EveryInstanceEndedOnce ==
    \A i \in DOMAIN log :
        log[i].op = "push" =>
            /\ Cardinality({j \in Pops(log) : log[j].serial = log[i].serial}) = 1
            /\ \A j \in Pops(log) : log[j].serial = log[i].serial => i < j

DrainedInnermostFirst ==
    log' = log \o [k \in 1..Len(stack) |->
                    [op |-> "pop",
                     type |-> stack[Len(stack) + 1 - k].type,
                     serial |-> stack[Len(stack) + 1 - k].serial]]

StackDrainedAtReturn ==
    /\ [](pc = "done" => stack = <<>> /\ EveryInstanceEndedOnce)
    /\ [][pc' = "done" => DrainedInnermostFirst]_vars

\* render() has returned after a drain that ended three nested frames.
ReturnedAfterNestedDrain ==
    /\ pc = "done"
    /\ Len(log) >= 6
    /\ \A k \in 0..2 : log[Len(log) - k].op = "pop"
    /\ log[Len(log)].serial < log[Len(log) - 1].serial
    /\ log[Len(log) - 1].serial < log[Len(log) - 2].serial

\* C4: within one pass uniqueId() returns strictly increasing values, so no
\* two list-item or checkbox instances of the pass carry the same id.
UniqueIds ==
    /\ \A i, j \in DOMAIN issued : i < j => issued[i] < issued[j]
    /\ \A i \in DOMAIN stack :
        HasId(stack[i]) =>
            /\ \E k \in DOMAIN issued : issued[k] = stack[i].state.id
            /\ \A j \in DOMAIN stack :
                (j # i /\ HasId(stack[j])) => stack[j].state.id # stack[i].state.id
    /\ \A i \in DOMAIN commands :
        HasId(commands[i]) =>
            /\ \E k \in DOMAIN issued : issued[k] = commands[i].state.id
            /\ \A j \in DOMAIN commands :
                (j # i /\ HasId(commands[j])) =>
                    commands[j].state.id # commands[i].state.id
            /\ \A j \in DOMAIN stack :
                (j # i /\ HasId(stack[j])) =>
                    stack[j].state.id # commands[i].state.id

\* Three ids have been issued, and two list items that carry ids are open.
SeveralIdsIssued ==
    /\ Len(issued) >= 3
    /\ \E i, j \in DOMAIN stack :
        /\ i < j
        /\ stack[i].type = LIST_ITEM
        /\ stack[j].type = LIST_ITEM

RECURSIVE SplitLines(_)
\* The lines of an input, one for each pass of the loop of render()
SplitLines(s) ==
    IF s = <<>> THEN <<>>
    ELSE <<SubSeq(s, 1, LineEnd(s, 1))>> \o SplitLines(Drop(s, LineEnd(s, 1) + 1))

\* The pieces of the buffer h that are in the set S
CountOf(h, S) == Cardinality({i \in DOMAIN h : h[i] \in S})

\* The lines of the input that start with the characters lit
LinesWith(lit) ==
    {k \in DOMAIN SplitLines(input) : StartsWith(SplitLines(input)[k], lit)}

\* The place of the last newline of s at or before q, or 0
RECURSIVE PrevNewline(_, _)
PrevNewline(s, q) ==
    IF q <= 0 THEN 0
    ELSE IF s[q] = "\n" THEN q
    ELSE PrevNewline(s, q - 1)

\* The line render() processed last, when each pass consumes one line
LastLine == SubSeq(input, PrevNewline(input, cursor - 1) + 1, cursor - 1)

HashCount(l) == CountIn(l, 1, {"#"})

HeadingClosings == { "</h" \o ToString(n) \o ">\n" : n \in 1..6 }

\* C5: a heading frame is never kept by reconciliation: every heading frame
\* on the stack after a line is reconciled was pushed for that line, and when render()
\* returns there is one heading element for every heading line, even when
\* two consecutive heading lines have the same level and text.
HeadingNeverKept ==
    /\ [][pc' # "thrown" =>
            \A i \in DOMAIN stack' :
                stack'[i].type = HEADING => stack'[i].serial > Pushes(log)]_vars
    /\ [](pc = "done" =>
            CountOf(html, HeadingClosings) = Cardinality(LinesWith(<<"#">>)))

\* The second of two identical heading lines has been processed.
SecondIdenticalHeadingOpen ==
    /\ pc = "render"
    /\ input = <<"#", " ", "a", "\n", "#", " ", "a">>
    /\ cursor > Len(input)
    /\ Len(stack) = 1
    /\ stack[1].type = HEADING

\* C6: a horizontal-rule frame is never kept by reconciliation: when
\* render() returns there is one rule element for every rule line.
RuleNeverKept ==
    pc = "done" =>
        CountOf(html, {"<hr/>\n"}) = Cardinality(LinesWith(<<"-", "-", "-">>))

\* A heading line as C7 has it: 1 to 6 hashes directly followed by text
WellFormedHeading(l) == HashCount(l) \in 1..6 /\ Len(l) > HashCount(l)

HeadingText(l) == Trim(Drop(l, HashCount(l)))

\* The text w as a piece of the buffer, up to the whitespace around it
Padded(w) ==
    { Flatten(l \o w \o r) \o "\n" : l \in {<<>>, <<" ">>}, r \in {<<>>, <<" ">>} }

HeadingElementAt(h, k, l) ==
    /\ h[3 * k - 2] = "<h" \o ToString(HashCount(l)) \o ">\n"
    /\ h[3 * k - 1] \in Padded(HeadingText(l))
    /\ h[3 * k] = "</h" \o ToString(HashCount(l)) \o ">\n"

\* C7: for n in 1..6, a line of n hashes directly followed by text, with or
\* without a space in between, is classified as one heading of level n, and
\* the buffer holds an element h<n> around the trimmed text for it.
HeadingLevels ==
    /\ (pc = "render" /\ cursor > 0 /\ WellFormedHeading(LastLine)) =>
            /\ Len(commands) = 1
            /\ commands[1].type = HEADING
            /\ commands[1].state.n = HashCount(LastLine)
            /\ Trim(commands[1].state.text) = HeadingText(LastLine)
    /\ (/\ pc = "done"
        /\ \A k \in DOMAIN SplitLines(input) :
                WellFormedHeading(SplitLines(input)[k])) =>
            /\ Len(html) = 3 * Len(SplitLines(input))
            /\ \A k \in DOMAIN SplitLines(input) :
                    HeadingElementAt(html, k, SplitLines(input)[k])

\* render() has returned from a level 6 heading without a space and a level
\* 3 heading with one.
HeadingsOfTwoLevelsRendered ==
    /\ pc = "done"
    /\ input = <<"#", "#", "#", "#", "#", "#", "a", "\n", "#", "#", "#", " ", "a">>
    /\ Len(html) = 6

\* C8: a line that begins with 7 or more hashes triggers no heading: no
\* heading instance is classified for it.
SevenHashesNoHeading ==
    (pc = "render" /\ cursor > 0 /\ HashCount(LastLine) >= 7) =>
        \A i \in DOMAIN commands : commands[i].type # HEADING

\* The indent level of a list line: four spaces a level
ListLevel(l) == CountIn(l, 1, {" "}) \div 4

\* The number of lines render() has processed when the cursor is cur
LinesDone(cur) ==
    IF cur = 0 THEN 0
    ELSE 1 + Cardinality({j \in 1..(cur - 1) : input[j] = "\n"})

\* The first k lines of ls start at level 0 and none is more than one level
\* deeper than the line before it.
GentleRun(ls, k) ==
    /\ k >= 1
    /\ ListLevel(ls[1]) = 0
    /\ \A j \in 2..k : ListLevel(ls[j]) <= ListLevel(ls[j - 1]) + 1

PopEntry(frame) == [op |-> "pop", type |-> frame.type, serial |-> frame.serial]

\* The step that reconciles a list line of level L, `closed` being the number
\* of open frames deeper than the list of level L: the frames of the
\* shallower levels and the list of level L, where open, stay as they are;
\* the item of level L and all deeper frames are closed, innermost first,
\* before anything is opened; one item is opened, on top, at level L.
ListLineReconciled(L, closed) ==
    /\ Len(stack') = 2 * (L + 1)
    /\ \A i \in DOMAIN stack' :
        stack'[i].type = IF i % 2 = 1 THEN LIST ELSE LIST_ITEM
    /\ Len(stack) >= 2 * L
    /\ \A i \in 1..Min(2 * L + 1, Len(stack)) : stack'[i] = stack[i]
    /\ Len(log') >= Len(log) + closed
    /\ \A k \in 1..closed :
        log'[Len(log) + k] = PopEntry(stack[Len(stack) + 1 - k])
    /\ \A i \in (Len(log) + closed + 1)..Len(log') : log'[i].op = "push"
    /\ Cardinality(PushesOf(log', LIST_ITEM))
            = Cardinality(PushesOf(log, LIST_ITEM)) + 1
    /\ stack'[2 * L + 2].serial > Pushes(log)

ListLineStep(ls, k) ==
    GentleRun(ls, k) =>
        ListLineReconciled(ListLevel(ls[k]),
                           Len(stack) - Min(2 * ListLevel(ls[k]) + 1, Len(stack)))

\* The number of lists open around the piece i of the buffer h, less one
TextDepth(h, i) ==
    CountOf(SubSeq(h, 1, i), {"<ul>\n"}) - CountOf(SubSeq(h, 1, i), {"</ul>\n"}) - 1

\* The buffer holds one item for each line of ls, the text of the k-th line
\* at the depth of its level, and every list and item is closed.
ListRendered(h, ls) ==
    /\ \A k \in DOMAIN ls :
        /\ Cardinality({i \in DOMAIN h : h[i] = Letters[k] \o "\n"}) = 1
        /\ \A i \in DOMAIN h :
            h[i] = Letters[k] \o "\n" =>
                /\ TextDepth(h, i) = ListLevel(ls[k])
                /\ h[i - 1] = "<li>\n"
    /\ CountOf(h, {"<li>\n"}) = Len(ls)
    /\ CountOf(h, {"</li>\n"}) = Len(ls)
    /\ CountOf(h, {"<ul>\n"}) = CountOf(h, {"</ul>\n"})
    /\ CountOf(h, {"<ul>\n", "</ul>\n", "<li>\n", "</li>\n"}) = Len(h) - Len(ls)

\* - a, then - b behind 4 spaces, - c behind 8, - d behind 4, and - e
NestedExample == ListInput(<<0, 1, 2, 1, 0>>)

NestedExampleHtml ==
    << "<ul>\n", "<li>\n", "a\n",
         "<ul>\n", "<li>\n", "b\n",
           "<ul>\n", "<li>\n", "c\n", "</li>\n", "</ul>\n",
         "</li>\n", "<li>\n", "d\n", "</li>\n", "</ul>\n",
       "</li>\n", "<li>\n", "e\n", "</li>\n", "</ul>\n" >>

\* C9: in a run of unordered list lines none of which is more than one
\* level deeper than the line before it, every line opens exactly one item
\* at its own level, the items of shallower levels stay open and all deeper
\* frames are closed first; the five lines a to e at levels 0, 1, 2, 1, 0
\* give three nested lists with a and e at depth 0, b and d at depth 1 and
\* c at depth 2.
ListNesting ==
    /\ [][(pc' = "render" /\ cursor' # cursor) =>
            ListLineStep(SplitLines(input), LinesDone(cursor'))]_vars
    /\ [](pc = "done" /\ GentleRun(SplitLines(input), Len(SplitLines(input))) =>
            ListRendered(html, SplitLines(input)))
    /\ [](pc = "done" /\ input = NestedExample => html = NestedExampleHtml)

\* render() has returned from the five lines a to e.
NestedExampleRendered ==
    /\ pc = "done"
    /\ input = NestedExample
    /\ TextDepth(html, 9) = 2

CheckboxInput(n, checked) ==
    "<input id=\"input_checkbox_" \o ToString(n) \o "\" type=\"checkbox\" "
        \o (IF checked THEN "checked" ELSE "") \o "/>\n"

CheckboxLabel(n) == "<label for=\"input_checkbox_" \o ToString(n) \o "\">\n"

TwoCheckboxes ==
    << "-", " ", "[", " ", "]", " ", "x", "\n",
       "-", " ", "[", "x", "]", " ", "y" >>

\* C10: the lines "- [ ] x" and "- [x] y" give two checkbox and label
\* pairs: the second line closes the frame of the first and opens a new
\* one, the second id is greater than the first, the first input is
\* unchecked and the second checked, and each label is for its own input.
TwoCheckboxPairs ==
    (pc = "done" /\ input = TwoCheckboxes) =>
        /\ \E a, b \in 0..Len(input) :
            /\ a < b
            /\ html = << CheckboxInput(a, FALSE), CheckboxLabel(a), "x\n",
                         "</label>\n", "<br>\n",
                         CheckboxInput(b, TRUE), CheckboxLabel(b), "y\n",
                         "</label>\n", "<br>\n" >>
        /\ log = << [op |-> "push", type |-> CHECKBOX_LABEL, serial |-> 1],
                    [op |-> "pop", type |-> CHECKBOX_LABEL, serial |-> 1],
                    [op |-> "push", type |-> CHECKBOX_LABEL, serial |-> 2],
                    [op |-> "pop", type |-> CHECKBOX_LABEL, serial |-> 2] >>

\* render() has returned from the two checkbox lines.
TwoCheckboxesRendered ==
    /\ pc = "done"
    /\ input = TwoCheckboxes
    /\ Len(html) = 10

\* The line l is a checkbox line
CheckboxLine(l) == StartsWith(l, <<"-", " ", "[">>)

\* C11: in an input of checkbox lines only, the checkbox ids are numbered
\* from 1 in document order: the input element of the k-th line has the id
\* input_checkbox_k.
CheckboxIdsFromOne ==
    (/\ pc = "done"
     /\ \A k \in DOMAIN SplitLines(input) : CheckboxLine(SplitLines(input)[k])) =>
        /\ Len(html) = 5 * Len(SplitLines(input))
        /\ \A k \in DOMAIN SplitLines(input) :
            html[5 * k - 4] \in {CheckboxInput(k, TRUE), CheckboxInput(k, FALSE)}

-----------------------------------------------------------------------------
(* Tables *)

\* Table rows of one and of two cells: headers, separators and body rows,
\* with a bar behind the last cell and, for two cells, also without; and the
\* blank line, which closes a table.
TableLines ==
    { <<"|", "a", "|">>,
      <<"|", "a", "|", "b", "|">>,
      <<"|", "a", "|", "b">>,
      <<"|", ":", "-", "-", "|">>,
      <<"|", ":", "-", "-", "|", "-", "-", ":", "|">>,
      <<"|", ":", "-", "-", "|", "-", "-", ":">>,
      <<"|", "1", "|">>,
      <<"|", "1", "|", "2", "|">>,
      <<"|", "1", "|", "2">>,
      <<>> }

MaxTableLines == 3

InitTable == InitOn(InputsOf(TableLines, MaxTableLines))

SpecTable == InitTable /\ [][Next]_vars

\* A separator cell: dashes between optional colons
SeparatorCell(c) ==
    /\ c # <<>>
    /\ \E a, b \in 0..1 :
        /\ a = 1 => c[1] = ":"
        /\ b = 1 => c[Len(c)] = ":"
        /\ Len(c) - a - b >= 1
        /\ \A i \in (1 + a)..(Len(c) - b) : c[i] = "-"

RECURSIVE CellCount(_, _)
\* The number of cells at the start of s, each ended by a bar: separator
\* cells when `separator`, cells without a colon otherwise
CellCount(s, separator) ==
    IF IndexOf(s, <<"|">>, 1) = 0 THEN 0
    ELSE IF (IF separator
             THEN SeparatorCell(Trim(SubSeq(s, 1, IndexOf(s, <<"|">>, 1) - 1)))
             ELSE \A i \in 1..(IndexOf(s, <<"|">>, 1) - 1) : s[i] # ":")
    THEN 1 + CellCount(Drop(s, IndexOf(s, <<"|">>, 1)), separator)
    ELSE 0

\* The rows of a table block for which the table parse has to fail
TableMustFail(rows) ==
    \/ Len(rows) < 2
    \/ CellCount(Tail(rows[2]), TRUE) # CellCount(Tail(rows[1]), FALSE)
    \/ \E i \in 3..Len(rows) :
        CellCount(Tail(rows[i]), FALSE) # CellCount(Tail(rows[1]), FALSE)

\* The paragraph the rows of a failed table are emitted as
RowsParagraph(rows) ==
    << "<p>\n", Flatten(Join(rows, <<"<", "b", "r", ">">>)) \o "\n", "</p>\n" >>

\* The step closes the table frame on top of the stack
TableClosed ==
    /\ stack # <<>>
    /\ stack[Len(stack)].type = TABLE
    /\ Len(log') > Len(log)
    /\ log'[Len(log) + 1] = PopEntry(stack[Len(stack)])

TableCell(tag, alignment, content) ==
    << "<" \o tag \o " style=\"text-align: " \o alignment \o ";\">\n",
       content \o "\n",
       "</" \o tag \o ">\n" >>

\* A table of the header cells a and b and the body cells 1 and 2, the
\* first column aligned left and the second right
TableExampleHtml ==
    << "<table>\n", "<thead>\n", "<tr>\n" >>
        \o TableCell("th", "left", "a") \o TableCell("th", "right", "b")
        \o << "</tr>\n", "</thead>\n", "<tbody>\n", "<tr>\n" >>
        \o TableCell("td", "left", "1") \o TableCell("td", "right", "2")
        \o << "</tr>\n", "</tbody>\n", "</table>\n" >>

\* The rows a|b, :--|--: and 1|2, each behind the bar of the table trigger
TableExample ==
    Join(<< <<"|", "a", "|", "b">>,
            <<"|", ":", "-", "-", "|", "-", "-", ":">>,
            <<"|", "1", "|", "2">> >>, <<"\n">>)

\* C13: the table block of the header a|b, the separator :--|--: and the
\* body 1|2 renders a table of one header row and one body row with the
\* cells 1 and 2, column 1 aligned left and column 2 aligned right.
TableExampleRendered ==
    (pc = "done" /\ input = TableExample) => html = TableExampleHtml

\* The same rows with a bar behind the last cell of each
BarredTableExample ==
    Join(<< <<"|", "a", "|", "b", "|">>,
            <<"|", ":", "-", "-", "|", "-", "-", ":", "|">>,
            <<"|", "1", "|", "2", "|">> >>, <<"\n">>)

\* With a bar behind the last cell of each row the table is rendered whole.
BarredTableExampleRendered ==
    (pc = "done" /\ input = BarredTableExample) => html = TableExampleHtml

\* The line the step processes, when the step consumes one line
LineOfStep == SubSeq(input, cursor + 1, cursor' - 1)

\* The step is a pass of the loop of render() that returns normally
LineStep == pc' = "render" /\ cursor' # cursor

\* A line without any character but spaces and tabs: no trigger matches it
NoTriggerLine(l) == \A i \in DOMAIN l : l[i] \in HSpace

\* C14: a line on which no trigger produces an instance continues the open
\* stack when its innermost frame is a list item (the stack stays as it is
\* and the text goes to the item), and is a fresh paragraph otherwise.
NoTriggerLineFallsBack ==
    [][(LineStep /\ NoTriggerLine(LineOfStep)) =>
            IF stack # <<>> /\ stack[Len(stack)].type = LIST_ITEM
            THEN /\ stack' = stack
                 /\ Len(html') = Len(html) + 1
            ELSE /\ Len(commands') = 1
                 /\ commands'[1].type = PARAGRAPH
                 /\ stack' # <<>>
                 /\ stack'[Len(stack')].type = PARAGRAPH]_vars

\* What the code does with such a line: no command is produced and every
\* open frame is closed.
NoTriggerLineClosesEveryFrame ==
    [][(LineStep /\ NoTriggerLine(LineOfStep)) =>
            commands' = <<>> /\ stack' = <<>>]_vars


\* The classification of the last line ends with a blockquote
EndsWithBlockquote ==
    commands # <<>> /\ commands[Len(commands)].type = BLOCKQUOTE

\* C15: after a line whose classification ends with a blockquote as the
\* innermost instance, the innermost open frame is a paragraph opened
\* inside the blockquote.
BlockquoteOpensParagraph ==
    (pc = "render" /\ EndsWithBlockquote) =>
        /\ Len(stack) >= 2
        /\ stack[Len(stack)].type = PARAGRAPH
        /\ stack[Len(stack) - 1].type = BLOCKQUOTE

\* What the code does: the blockquote itself stays the innermost frame.
BlockquoteStaysInnermost ==
    (pc = "render" /\ EndsWithBlockquote) =>
        stack # <<>> /\ stack[Len(stack)].type = BLOCKQUOTE


-----------------------------------------------------------------------------
(* Paragraphs *)

\* Plain-text lines, a blank line and lines with an alignment marker
PlainLines == { <<"a">>, <<"b", " ", "c">> }

ParagraphLines ==
    PlainLines \cup { <<>>, <<":", ":", ":", " ", "j">>,
                      <<":", "-", "-", " ", "k">>, <<"-", "-", ":", " ", "r">> }

MaxParagraphLines == 4

InitParagraph == InitOn(InputsOf(ParagraphLines, MaxParagraphLines))

SpecParagraph == InitParagraph /\ [][Next]_vars

RECURSIVE TextRuns(_, _)
\* The runs of consecutive non-blank lines of ls, each as the text of its
\* lines with a newline after every line; acc is the run being read
TextRuns(ls, acc) ==
    IF ls = <<>> THEN (IF acc = <<>> THEN <<>> ELSE <<acc>>)
    ELSE IF ls[1] = <<>>
    THEN (IF acc = <<>> THEN <<>> ELSE <<acc>>) \o TextRuns(Tail(ls), <<>>)
    ELSE TextRuns(Tail(ls), acc \o ls[1] \o <<"\n">>)

RECURSIVE ParagraphElements(_)
\* One left-aligned paragraph element for each run of text
ParagraphElements(runs) ==
    IF runs = <<>> THEN <<>>
    ELSE << "<p style=\"text-align: left;\">\n",
            Flatten(runs[1]) \o "\n",
            "</p>\n" >> \o ParagraphElements(Tail(runs))

\* The lines of the input are plain-text lines and blank lines
PlainInput ==
    \A k \in DOMAIN SplitLines(input) :
        SplitLines(input)[k] \in PlainLines \cup { <<>> }

\* C16: consecutive non-blank plain-text lines are accumulated into one
\* paragraph and a blank line ends it: the output is one paragraph element
\* for each run of text lines, so two runs separated by a blank line are
\* exactly two paragraphs.
ParagraphPerRun ==
    (pc = "done" /\ PlainInput) =>
        html = ParagraphElements(TextRuns(SplitLines(input), <<>>))

\* Two lines of text, a blank line and a line of text have been rendered as
\* two paragraphs, the first one holding both lines
TwoParagraphsRendered ==
    /\ pc = "done"
    /\ input = <<"a", "\n", "b", " ", "c", "\n", "\n", "a">>
    /\ html = << "<p style=\"text-align: left;\">\n", "a\nb c\n\n", "</p>\n",
                 "<p style=\"text-align: left;\">\n", "a\n\n", "</p>\n" >>


-----------------------------------------------------------------------------
(* Inline emphasis *)

MaxStars == 2

\* A run of k asterisks
Stars(k) == [i \in 1..k |-> "*"]

\* The markers put around the words: runs of asterisks and a double underscore
Markers == { Stars(k) : k \in 0..MaxStars } \cup { <<"_", "_">> }

\* The words bold, and, italic with a marker before, between and after them
Emphasised(m1, m2, m3, m4) ==
    m1 \o <<"b", "o", "l", "d", " ">> \o m2 \o <<"a", "n", "d">> \o m3
       \o <<" ", "i", "t", "a", "l", "i", "c">> \o m4

\* A line with one link, a line with two links, and a word in triple
\* asterisks
TwoLinks ==
    <<"[", "a", "]", "(", "b", ")", " ", "[", "c", "]", "(", "d", ")">>

TripleStars == <<"*", "*", "*", "x", "*", "*", "*">>

InlineExamples ==
    { <<"[", "a", "]", "(", "b", ")">>, TwoLinks, TripleStars }

InlineInputs ==
    { Emphasised(m[1], m[2], m[3], m[4]) : m \in [1..4 -> Markers] }
        \cup InlineExamples

InitInline == InitOn(InlineInputs)

SpecInline == InitInline /\ [][Next]_vars

\* The middle word between its markers: a pair of single asterisks makes it
\* italic, a single asterisk on one side stays as it is
MiddleWord(m2, m3) ==
    IF m2 = Stars(1) /\ m3 = Stars(1) THEN "<i>and</i>"
    ELSE Flatten(m2) \o "and" \o Flatten(m3)

\* C17: the text **bold *and* italic** renders as one bold wrapper around
\* the literal "bold ", an italic element around "and" and the literal
\* " italic"; bold is substituted before italic, so the double-asterisk span
\* is one bold element whatever single asterisks stand inside it.
BoldBeforeItalic ==
    \A m2, m3 \in { Stars(0), Stars(1) } :
        (pc = "done" /\ input = Emphasised(Stars(2), m2, m3, Stars(2))) =>
            html = << "<p style=\"text-align: left;\">\n",
                      "<b>bold " \o MiddleWord(m2, m3) \o " italic</b>\n\n",
                      "</p>\n" >>

\* The text **bold *and* italic** has been rendered with the italic element
\* inside the bold one
BoldAndItalicRendered ==
    /\ pc = "done"
    /\ input = Emphasised(Stars(2), Stars(1), Stars(1), Stars(2))
    /\ html[2] = "<b>bold <i>and</i> italic</b>\n\n"


-----------------------------------------------------------------------------
(* Several renderers, one after the other *)

MaxRenders == 3

\* Inputs that draw ids and inputs that draw none
SessionInputs ==
    { <<"-", " ", "[", " ", "]", " ", "x">>,
      <<"-", " ", "[", "x", "]", " ", "y", "\n", "-", " ", "[", " ", "]", " ", "x">>,
      <<"-", " ", "a", "\n", "-", " ", "a">>,
      <<"#", " ", "a">> }

\* What is left of a renderer whose render() has returned or thrown
Outcome == [input |-> input, html |-> html, issued |-> issued, pc |-> pc]

\* A faulty variant of Construct whose id counter is shared by every renderer
ConstructSharedCounter ==
    /\ pc \in {"done", "thrown"}
    /\ Len(rendered) < MaxRenders
    /\ rendered' = Append(rendered, Outcome)
    /\ input' \in SessionInputs
    /\ cursor' = 0
    /\ id' = id
    /\ html' = <<>>
    /\ stack' = <<>>
    /\ pc' = "render"
    /\ text' = <<>>
    /\ commands' = <<>>
    /\ issued' = <<>>
    /\ log' = <<>>

\* new MarkdownRenderer(input), with its new MarkdownRenderState(), after the
\* render() of the renderer before it
Construct ==
    /\ pc \in {"done", "thrown"}
    /\ Len(rendered) < MaxRenders
    /\ rendered' = Append(rendered, Outcome)
    /\ input' \in SessionInputs
    /\ cursor' = 0
    /\ id' = 0
    /\ html' = <<>>
    /\ stack' = <<>>
    /\ pc' = "render"
    /\ text' = <<>>
    /\ commands' = <<>>
    /\ issued' = <<>>
    /\ log' = <<>>

NextSession == RenderLine \/ Drain \/ Construct

InitSession == InitOn(SessionInputs)

SpecSession == InitSession /\ [][NextSession]_vars

\* C18: renders are independent and deterministic: a renderer gives for its
\* input the output and the ids that every earlier renderer of the same
\* input gave, whatever was rendered before it or in between.
RendersIndependent ==
    pc = "done" =>
        \A i \in DOMAIN rendered :
            rendered[i].input = input =>
                /\ rendered[i].pc = "done"
                /\ rendered[i].html = html
                /\ rendered[i].issued = issued

\* An input that draws ids has been rendered twice with another input
\* rendered in between
SameInputRenderedAgain ==
    /\ pc = "done"
    /\ Len(rendered) = 2
    /\ rendered[1].input = input
    /\ rendered[2].input # input
    /\ rendered[2].issued # <<>>
    /\ Len(issued) = 2


-----------------------------------------------------------------------------
(* Reconciliation *)

\* The calls of pushCommand and popCommand that the step adds to the history
Added == SubSeq(log', Len(log) + 1, Len(log'))

\* The number of popCommand calls among them
Closed == Cardinality(Pops(Added))

PushEntry(frame) == [op |-> "push", type |-> frame.type, serial |-> frame.serial]

\* C19: within the processing of one line every close of an old frame comes
\* before any open of a new frame; the frames beyond the shared prefix are
\* closed innermost first, and the new instances are opened outermost first.
ClosesThenOpens ==
    [][LineStep =>
        /\ SubSeq(log', 1, Len(log)) = log
        /\ Closed <= Len(stack)
        /\ \A i \in 1..Closed : Added[i] = PopEntry(stack[Len(stack) + 1 - i])
        /\ Len(stack') = Len(stack) - Closed + (Len(Added) - Closed)
        /\ Len(stack') = Len(commands')
        /\ \A j \in 1..(Len(Added) - Closed) :
              /\ Added[Closed + j] = PushEntry(stack'[Len(stack) - Closed + j])
              /\ Added[Closed + j].type = commands'[Len(stack) - Closed + j].type]_vars

\* A line has just closed two frames and then opened two
TwoClosedThenTwoOpened ==
    /\ pc = "render"
    /\ Len(log) >= 4
    /\ Len(stack) >= 2
    /\ log[Len(log) - 3].op = "pop"
    /\ log[Len(log) - 2].op = "pop"
    /\ log[Len(log) - 1] = PushEntry(stack[Len(stack) - 1])
    /\ log[Len(log)] = PushEntry(stack[Len(stack)])
    /\ stack[Len(stack) - 1].type # stack[Len(stack)].type


\* The number of frames the step keeps
Kept == Len(stack) - Closed

\* At position i the old frame and the instance of the new line have the same
\* kind and the kind's isEqualToFirst, when it has one, accepts
Agree(i) ==
    /\ stack[i].type = commands'[i].type
    /\ HasIsEqualToFirst(commands'[i].type) =>
            isEqualToFirst(commands'[i].type, commands'[i].state,
                           Drop(stack, i - 1), Drop(commands', i - 1))

\* The state of the kept frame at position i after the step: the innermost
\* frame of the new stack has taken the text of the line
KeptState(i) ==
    IF i = Len(stack')
    THEN onTextLine(html, stack[i].type, stack[i].state, text').state
    ELSE stack[i].state

\* C20: the shared prefix of reconciliation is the longest prefix in which at
\* every position the kinds are equal and the continuation predicate, when
\* the kind has one, accepts; the frames inside it get no on_end and no
\* on_start and keep the old instance with its accumulated state, the
\* instances of the new line at those positions being discarded.
SharedPrefixKept ==
    [][LineStep =>
        /\ Kept \in 0..Min(Len(stack), Len(commands'))
        /\ \A i \in 1..Kept : Agree(i)
        /\ Kept < Min(Len(stack), Len(commands')) => ~Agree(Kept + 1)
        /\ \A i \in 1..Kept :
              /\ stack'[i].type = stack[i].type
              /\ stack'[i].serial = stack[i].serial
              /\ stack'[i].state = KeptState(i)
              /\ \A j \in DOMAIN Added : Added[j].serial # stack[i].serial]_vars

\* A justified paragraph has been kept over a line without a marker: the
\* frame is the old one with its alignment, the new instance has none
OldParagraphKept ==
    /\ pc = "render"
    /\ Len(stack) = 1
    /\ Len(commands) = 1
    /\ commands[1].type = PARAGRAPH
    /\ commands[1].state.align = Undefined
    /\ stack[1].type = PARAGRAPH
    /\ stack[1].state.align = JUSTIFY
    /\ stack[1].state.text = <<"j", "\n", "t", "\n">>
    /\ log = <<PushEntry(stack[1])>>


-----------------------------------------------------------------------------
(* Ordered and unordered list lines *)

MaxDepth == 2

MaxMarkerLines == 3

\* The two kinds of list marker
ListMarkers == { <<"-">>, <<"1", ".">> }

\* A list line of each marker at each level, with the text a
MarkerLines ==
    { Indent(level) \o marker \o <<" ", "a">> :
        level \in 0..MaxDepth, marker \in ListMarkers }

InitMarker == InitOn(InputsOf(MarkerLines, MaxMarkerLines))

SpecMarker == InitMarker /\ [][Next]_vars

\* The number of LIST/LIST_ITEM pairs of the line the step classifies
PairsOfLine == Len(commands') \div 2

\* The step closes the frame at position i of the old stack
ClosedAt(i) == \E j \in DOMAIN Added : Added[j] = PopEntry(stack[i])

\* The frame at position i of the new stack is one the step has opened
OpenedAt(i) == \E j \in DOMAIN Added : Added[j] = PushEntry(stack'[i])

\* C21: an open list item is kept whenever the new line has a deeper list
\* item after its position, whatever its id; at the position of the line's
\* last list item it is never kept, the ids being fresh: every list-marker
\* line closes the open item at its own level, if any, and opens a new one
\* there.
ListItemKeptUnlessLast ==
    [][LineStep =>
        /\ \A i \in 1..Min(Len(stack), 2 * PairsOfLine - 2) :
              /\ stack'[i] = stack[i]
              /\ ~ClosedAt(i)
              /\ i % 2 = 0 => stack[i].state # commands'[i].state
        /\ stack'[2 * PairsOfLine].type = LIST_ITEM
        /\ OpenedAt(2 * PairsOfLine)
        /\ stack'[2 * PairsOfLine].state = commands'[2 * PairsOfLine].state
        /\ \A v \in DOMAIN issued :
              issued[v] # stack'[2 * PairsOfLine].state.id
        /\ Len(stack) >= 2 * PairsOfLine => ClosedAt(2 * PairsOfLine)]_vars

\* A line of level 1 has kept the item of level 0 and replaced the item that
\* was open at level 1
ItemReplacedUnderKeptItem ==
    /\ pc = "render"
    /\ Len(stack) = 4
    /\ stack[2].serial = 2
    /\ stack[3].serial = 3
    /\ stack[4].serial = 5
    /\ Len(log) = 6
    /\ log[5] = [op |-> "pop", type |-> LIST_ITEM, serial |-> 4]
    /\ stack[2].state.id = 0
    /\ stack[4].state.id = 4


\* The position of the deepest list of the line the step classifies
DeepestList == 2 * PairsOfLine - 1

\* The opening tag of a list frame, and its closing tag
ListOpening(frame) == IF frame.state.ordered THEN "<ol>\n" ELSE "<ul>\n"
ListClosing(frame) == IF frame.state.ordered THEN "</ol>\n" ELSE "</ul>\n"

\* The closing tag that answers an opening tag of a list
ClosingOf(tag) == IF tag = "<ol>\n" THEN "</ol>\n" ELSE "</ul>\n"

RECURSIVE ListTagsMatch(_, _)
\* Every closing list tag of the buffer h answers the opening list tag that
\* is open innermost, `open` being the opening tags still unanswered
ListTagsMatch(h, open) ==
    IF h = <<>> THEN open = <<>>
    ELSE IF h[1] \in {"<ol>\n", "<ul>\n"}
    THEN ListTagsMatch(Tail(h), Append(open, h[1]))
    ELSE IF h[1] \in {"</ol>\n", "</ul>\n"}
    THEN /\ open # <<>>
         /\ h[1] = ClosingOf(open[Len(open)])
         /\ ListTagsMatch(Tail(h), SubSeq(open, 1, Len(open) - 1))
    ELSE ListTagsMatch(Tail(h), open)

\* C22: when the deepest list position of a list-marker line meets an open
\* list of the other ordering, that list is closed and a list of the line's
\* kind is opened; the open lists at shallower positions are kept with
\* their ordering, whatever the marker of the line; every closing ol or ul
\* answers the tag its list was opened with.
ListReplacedOnOtherOrdering ==
    /\ [][LineStep =>
            /\ stack'[DeepestList].type = LIST
            /\ stack'[DeepestList].state = commands'[DeepestList].state
            /\ \A i \in 1..Min(Len(stack), DeepestList - 1) :
                  stack'[i] = stack[i]
            /\ Len(stack) >= DeepestList =>
                  IF stack[DeepestList].state = commands'[DeepestList].state
                  THEN stack'[DeepestList] = stack[DeepestList]
                  ELSE /\ ClosedAt(DeepestList)
                       /\ OpenedAt(DeepestList)
                       /\ html'[Len(html) + (Len(stack) - DeepestList) + 1]
                            = ListClosing(stack[DeepestList])
                       /\ html'[Len(html) + (Len(stack) - DeepestList) + 2]
                            = ListOpening(stack'[DeepestList])]_vars
    /\ [](pc = "done" => ListTagsMatch(html, <<>>))

\* An ordered line of level 1 has replaced an unordered list of level 1
\* under an unordered list of level 0, and render() has returned
OrderedListReplacedUnordered ==
    /\ pc = "done"
    /\ input = Join(<< <<"-", " ", "a">>,
                       Indent(1) \o <<"-", " ", "a">>,
                       Indent(1) \o <<"1", ".", " ", "a">> >>, <<"\n">>)
    /\ html = << "<ul>\n", "<li>\n", "a\n",
                   "<ul>\n", "<li>\n", "a\n", "</li>\n", "</ul>\n",
                   "<ol>\n", "<li>\n", "a\n", "</li>\n", "</ol>\n",
                 "</li>\n", "</ul>\n" >>


-----------------------------------------------------------------------------
(* Indentation of list lines *)

MaxSpaces == 9

MaxIndentLines == 2

\* A list line of each marker behind every number of spaces up to MaxSpaces
IndentLines ==
    { [i \in 1..n |-> " "] \o marker \o <<" ", "a">> :
        n \in 0..MaxSpaces, marker \in ListMarkers }

InitIndent == InitOn(InputsOf(IndentLines, MaxIndentLines))

SpecIndent == InitIndent /\ [][Next]_vars

\* The line has the marker of an ordered list
OrderedLine(l) == l[CountIn(l, 1, {" "}) + 1] # "-"

\* The instance a list line of the ordering `ordered` gives at position i,
\* the id counter being n before the line
PairInstance(i, ordered, n) ==
    IF i % 2 = 1 THEN Instance(LIST, [ordered |-> ordered])
    ELSE Instance(LIST_ITEM, [id |-> n + i \div 2 - 1])

\* C23: a list-marker line behind k whole groups of 4 spaces is classified
\* into exactly k + 1 pairs of a list and a list item, outermost first, each
\* item with a fresh id of its own; spaces that do not fill a group are
\* floor-divided, and no error is raised.
IndentGivesPairs ==
    /\ [][(pc = "render" /\ cursor < Len(input)) =>
            /\ pc' = "render"
            /\ Len(commands') = 2 * (ListLevel(LineOfStep) + 1)
            /\ \A i \in DOMAIN commands' :
                  commands'[i] = PairInstance(i, OrderedLine(LineOfStep), id)
            /\ id' = id + ListLevel(LineOfStep) + 1
            /\ issued' = issued \o [j \in 1..(ListLevel(LineOfStep) + 1) |-> id + j - 1]
            /\ text' = <<"a">>]_vars
    /\ [](pc # "thrown")

\* A line behind 9 spaces has pushed three lists and three items at once
SixFramesPushedAtOnce ==
    /\ pc = "render"
    /\ input = [i \in 1..9 |-> " "] \o <<"1", ".", " ", "a">>
    /\ Len(log) = 6
    /\ Len(stack) = 6
    /\ \A i \in 1..6 : log[i] = PushEntry(stack[i])
    /\ stack[6].state.id = 2


\* The alignment a line asks for with its marker, or "none"
MarkerOf(l) ==
    IF Len(l) < 4 \/ l[4] # " " THEN "none"
    ELSE CASE Take(l, 3) = <<":", ":", ":">> -> "justify"
           [] Take(l, 3) = <<":", "-", "-">> -> "left"
           [] Take(l, 3) = <<"-", "-", ":">> -> "right"
           [] Take(l, 3) = <<":", "-", ":">> -> "center"
           [] OTHER -> "none"

\* The text of a line behind its marker
TextBehindMarker(l) == IF MarkerOf(l) = "none" THEN l ELSE Drop(l, 4)

\* The paragraph element of the alignment `align` around the text acc, if a
\* paragraph is open
ParagraphElement(open, align, acc) ==
    IF ~open THEN <<>>
    ELSE << "<p style=\"text-align: "
                \o (IF align = "none" THEN "left" ELSE align) \o ";\">\n",
            Flatten(acc) \o "\n",
            "</p>\n" >>

RECURSIVE AlignedParagraphs(_, _, _, _)
\* The paragraphs of the lines ls: a line goes to the open paragraph when it
\* has no marker or the marker of the line that opened the paragraph, and
\* opens a paragraph of its own marker otherwise; a blank line closes
AlignedParagraphs(ls, open, align, acc) ==
    IF ls = <<>> THEN ParagraphElement(open, align, acc)
    ELSE IF ls[1] = <<>>
    THEN ParagraphElement(open, align, acc)
            \o AlignedParagraphs(Tail(ls), FALSE, "none", <<>>)
    ELSE IF open /\ MarkerOf(ls[1]) \in {"none", align}
    THEN AlignedParagraphs(Tail(ls), TRUE, align,
                           acc \o TextBehindMarker(ls[1]) \o <<"\n">>)
    ELSE ParagraphElement(open, align, acc)
            \o AlignedParagraphs(Tail(ls), TRUE, MarkerOf(ls[1]),
                                 TextBehindMarker(ls[1]) \o <<"\n">>)

\* The alignment of a paragraph frame, "none" for a paragraph opened by a
\* line without a marker
FrameAlignment(frame) ==
    IF frame.state.align = Undefined THEN "none" ELSE frame.state.align

\* C24: an open paragraph is kept for the next text line exactly when the
\* line has no alignment marker or its marker is the alignment of the open
\* paragraph, and is closed with a new one opened otherwise; the alignment
\* of an open paragraph never changes, and every paragraph is emitted with
\* the alignment of its first line.
ParagraphKeptOnSameAlignment ==
    /\ [][(LineStep /\ stack # <<>> /\ LineOfStep # <<>>) =>
            IF MarkerOf(LineOfStep) \in {"none", FrameAlignment(stack[1])}
            THEN /\ Added = <<>>
                 /\ stack'[1].serial = stack[1].serial
                 /\ stack'[1].state.align = stack[1].state.align
                 /\ html' = html
            ELSE /\ Added = <<PopEntry(stack[1]), PushEntry(stack'[1])>>
                 /\ FrameAlignment(stack'[1]) = MarkerOf(LineOfStep)]_vars
    /\ [](pc = "done" =>
            html = AlignedParagraphs(SplitLines(input), FALSE, "none", <<>>))

\* A justified line, a line without a marker and a right-aligned line have
\* been rendered as a justified paragraph of two lines and a right-aligned one
AlignedParagraphsRendered ==
    /\ pc = "done"
    /\ input = <<":", ":", ":", " ", "j", "\n", "a", "\n", "-", "-", ":", " ", "r">>
    /\ html = << "<p style=\"text-align: justify;\">\n", "j\na\n\n", "</p>\n",
                 "<p style=\"text-align: right;\">\n", "r\n\n", "</p>\n" >>


\* The pieces the step appends to the buffer
Written == SubSeq(html', Len(html) + 1, Len(html'))

\* C25: consecutive lines that start with a bar are collected into one table
\* instance: the frame the first row opens is kept for every following row,
\* each row is appended to the rows of that instance in input order as the
\* text of the line from its first bar, and nothing is written for the table
\* until its frame is closed, when the rows are parsed once.
TableRowsCollected ==
    /\ [][(LineStep /\ LineOfStep # <<>>) =>
            /\ Len(stack') = 1
            /\ stack'[1].type = TABLE
            /\ html' = html
            /\ IF stack # <<>>
               THEN /\ Added = <<>>
                    /\ stack'[1].serial = stack[1].serial
                    /\ stack'[1].state.rows = Append(stack[1].state.rows, LineOfStep)
               ELSE /\ Added = <<PushEntry(stack'[1])>>
                    /\ stack'[1].state.rows = <<LineOfStep>>]_vars
    /\ [][html' # html => TableClosed]_vars
    /\ [][TableClosed =>
            /\ Added = <<PopEntry(stack[1])>>
            /\ SubSeq(html', 1, Len(html)) = html
            /\ CountOf(Written, {"<table>\n", "<p>\n"}) = 1
            /\ Written[1] \in {"<table>\n", "<p>\n"}]_vars

\* Three rows have been collected in one table frame and nothing is written
ThreeRowsCollected ==
    /\ pc = "render"
    /\ Len(stack) = 1
    /\ stack[1].type = TABLE
    /\ stack[1].state.rows = << <<"|", "a", "|">>, <<"|", ":", "-", "-", "|">>,
                                <<"|", "1", "|">> >>
    /\ log = <<PushEntry(stack[1])>>
    /\ html = <<>>


-----------------------------------------------------------------------------
(* Classification *)

RECURSIVE FirstTrigger(_, _)
\* The first entry of the registry order `order` whose regex matches s
FirstTrigger(order, s) ==
    IF order = <<>> THEN "none"
    ELSE IF Regex(order[1], s).ok THEN order[1]
    ELSE FirstTrigger(Tail(order), s)

\* The kind of the first instance a match of the entry cmd gives
FirstKindOf(cmd) == IF cmd = LIST_ITEM THEN LIST ELSE cmd

\* The line is nothing but three or more dashes
DashLine(l) == Len(l) >= 3 /\ \A i \in DOMAIN l : l[i] = "-"

\* C26: classification takes the first entry of the registry, in its fixed
\* order, whose trigger matches the remaining line: a checkbox line is
\* always a checkbox and never a list item, and a line of three or more
\* dashes is always a horizontal rule and never a list item.
FirstRegistryEntryWins ==
    [][LineStep =>
        /\ IF FirstTrigger(CommandOrder, Drop(input, cursor)) = "none"
           THEN commands' = <<>>
           ELSE /\ commands' # <<>>
                /\ commands'[1].type
                    = FirstKindOf(FirstTrigger(CommandOrder, Drop(input, cursor)))
        /\ CheckboxLine(LineOfStep) =>
              /\ Len(commands') = 1
              /\ commands'[1].type = CHECKBOX_LABEL
        /\ DashLine(LineOfStep) =>
              /\ Len(commands') = 1
              /\ commands'[1].type = HORIZONTAL_RULE]_vars

\* The line "- [ ] x", which the regex of LIST_ITEM matches as well, has been
\* classified as a checkbox
CheckboxNotListItem ==
    /\ pc = "render"
    /\ cursor > 0
    /\ LastLine = <<"-", " ", "[", " ", "]", " ", "x">>
    /\ RegexListItem(LastLine).ok
    /\ Len(commands) = 1
    /\ commands[1].type = CHECKBOX_LABEL
    /\ text = <<" ", "x">>


RECURSIVE BehindQuotes(_)
\* What is left of s behind its leading blockquote markers, each found by a
\* scan of the registry from its top
BehindQuotes(s) ==
    IF FirstTrigger(CommandOrder, s) = BLOCKQUOTE
    THEN BehindQuotes(Drop(s, Regex(BLOCKQUOTE, s).len))
    ELSE s

RECURSIVE QuoteCount(_)
\* The number of those markers
QuoteCount(s) ==
    IF FirstTrigger(CommandOrder, s) = BLOCKQUOTE
    THEN 1 + QuoteCount(Drop(s, Regex(BLOCKQUOTE, s).len))
    ELSE 0

\* What is left of s behind the match of its first trigger
BehindTrigger(s) ==
    IF FirstTrigger(CommandOrder, s) = "none" THEN s
    ELSE Drop(s, Regex(FirstTrigger(CommandOrder, s), s).len)

\* The kinds of the instances of a classification
Kinds(cmds) == [i \in DOMAIN cmds |-> cmds[i].type]

\* C27: after a stackable match, a blockquote marker, classification starts
\* again from the top of the registry on the rest of the line, so "> - a" is
\* a blockquote, a list and a list item and ">> x" is two blockquotes and a
\* paragraph; after a match that is not stackable classification stops and
\* the rest of the line is the residual text.
StackableMatchRestarts ==
    [][LineStep =>
        LET rest == BehindQuotes(Drop(input, cursor))
            quotes == QuoteCount(Drop(input, cursor))
        IN  /\ Len(commands') >= quotes
            /\ \A i \in 1..quotes : commands'[i].type = BLOCKQUOTE
            /\ \A i \in (quotes + 1)..Len(commands') :
                  commands'[i].type # BLOCKQUOTE
            /\ IF FirstTrigger(CommandOrder, rest) = "none"
               THEN Len(commands') = quotes
               ELSE /\ Len(commands') > quotes
                    /\ commands'[quotes + 1].type
                        = FirstKindOf(FirstTrigger(CommandOrder, rest))
                    /\ \A i \in (quotes + 1)..Len(commands') :
                          commands'[i].type \in
                            IF FirstTrigger(CommandOrder, rest) = LIST_ITEM
                            THEN {LIST, LIST_ITEM}
                            ELSE {FirstTrigger(CommandOrder, rest)}
            /\ text' = SubSeq(BehindTrigger(rest), 1, LineEnd(BehindTrigger(rest), 1))
            /\ LineOfStep = <<">", " ", "-", " ", "a">> =>
                  /\ Kinds(commands') = <<BLOCKQUOTE, LIST, LIST_ITEM>>
                  /\ text' = <<"a">>
            /\ LineOfStep = <<">", ">", " ", "x">> =>
                  /\ Kinds(commands') = <<BLOCKQUOTE, BLOCKQUOTE, PARAGRAPH>>
                  /\ text' = <<"x">>]_vars

\* The line ">> x" has been classified as two blockquotes and a paragraph
TwoQuotesAndParagraph ==
    /\ pc = "render"
    /\ cursor > 0
    /\ LastLine = <<">", ">", " ", "x">>
    /\ Kinds(commands) = <<BLOCKQUOTE, BLOCKQUOTE, PARAGRAPH>>
    /\ Kinds(stack) = <<BLOCKQUOTE, BLOCKQUOTE, PARAGRAPH>>
    /\ text = <<"x">>


\* The kinds whose descriptor has an onTextLine
TextHandlers == {CHECKBOX_LABEL, LIST_ITEM, TABLE, PARAGRAPH}

\* The render state the step has after reconciliation: the old frames beyond
\* the shared prefix closed, the new instances behind it opened
Reconciled ==
    PushFrom(diffCommands(RenderState(html, stack, log), commands'), commands')

\* C28: after reconciliation the residual text of the line goes to the
\* innermost open frame only; when the kind of that frame has no text
\* handler, or no frame is open, the text is absorbed: the stack and the
\* output buffer stay as reconciliation left them.
TextToInnermostOnly ==
    [][LineStep =>
        /\ Len(stack') = Len(Reconciled.stack)
        /\ \A i \in 1..(Len(stack') - 1) : stack'[i] = Reconciled.stack[i]
        /\ log' = Reconciled.log
        /\ IF stack' = <<>> \/ stack'[Len(stack')].type \notin TextHandlers
           THEN /\ stack' = Reconciled.stack
                /\ html' = Reconciled.html
           ELSE /\ stack'[Len(stack')].type = Reconciled.stack[Len(stack')].type
                /\ stack'[Len(stack')].serial = Reconciled.stack[Len(stack')].serial
                /\ html' = IF stack'[Len(stack')].type = LIST_ITEM
                           THEN Append(Reconciled.html, Flatten(InlineChain(text')) \o "\n")
                           ELSE Reconciled.html]_vars

\* The line "--- x" has left the text " x" behind a horizontal rule, whose
\* kind has no text handler: nothing has been written
TextAbsorbed ==
    /\ pc = "render"
    /\ input = <<"-", "-", "-", " ", "x">>
    /\ text = <<" ", "x">>
    /\ Kinds(stack) = <<HORIZONTAL_RULE>>
    /\ stack[1].state = NoState
    /\ html = <<>>


-----------------------------------------------------------------------------
(* Code blocks and math *)

MaxMathLines == 3

Fence == <<Backtick, Backtick, Backtick>>

\* Two fenced code blocks, two block formulas, one of them with spaces
\* around it, a line of text, a line with an inline formula with spaces
\* around it, and a blank line
MathLines ==
    { Fence \o <<"c">> \o Fence,
      Fence \o <<"d">> \o Fence,
      <<"$", "$", "$", "m", "$", "$", "$">>,
      <<"$", "$", "$", " ", "n", " ", "$", "$", "$">>,
      <<"t">>,
      <<"$", "$", " ", "m", " ", "$", "$">>,
      <<>> }

InitMath == InitOn(InputsOf(MathLines, MaxMathLines))

SpecMath == InitMath /\ [][Next]_vars

\* The lines of the input that start with the characters lit, as a number
LineCount(lit) == Cardinality(LinesWith(lit))

\* The pieces of the buffer that are fragments in display mode
DisplayFragments(h) ==
    {i \in DOMAIN h : h[i] \in {"<mjx display>m</mjx>", "<mjx display>n</mjx>",
                                "<mjx display> n </mjx>"}}

\* C29: every fenced code block and every block formula is a match of its
\* own that gives an output element of its own, one pre for each fence and
\* one fragment for each formula, whatever was open on the line before.
FenceAndFormulaEachRendered ==
    pc = "done" =>
        /\ CountOf(html, {"<pre>\n"}) = LineCount(Fence)
        /\ Cardinality(DisplayFragments(html)) = LineCount(<<"$", "$", "$">>)

\* What the code does with two fenced lines in a row: the frame of the first
\* is kept for the second, and one pre with the code of the first is written
SecondFenceLost ==
    (pc = "done" /\ input = Join(<<Fence \o <<"c">> \o Fence,
                                   Fence \o <<"d">> \o Fence>>, <<"\n">>)) =>
        html = <<"<pre>\n", "<code>", "c\n", "</code>", "</pre>\n">>


\* C30: the formula handed to the math collaborator is trimmed of the
\* whitespace around it for block math only, in display mode; inline math is
\* handed the raw text between its delimiters, not in display mode.
BlockMathTrimmedInlineRaw ==
    /\ (pc = "done" /\ input = <<"$", "$", "$", " ", "n", " ", "$", "$", "$">>) =>
            html = <<MathFragment(<<"n">>, TRUE)>>
    /\ (pc = "done" /\ input = <<"$", "$", " ", "m", " ", "$", "$">>) =>
            html[2] = MathFragment(<<" ", "m", " ">>, FALSE) \o "\n\n"

\* What the code does: the block formula goes to the collaborator as it
\* stands between its delimiters, the inline formula trimmed
BlockMathRawInlineTrimmed ==
    /\ (pc = "done" /\ input = <<"$", "$", "$", " ", "n", " ", "$", "$", "$">>) =>
            html = <<MathFragment(<<" ", "n", " ">>, TRUE)>>
    /\ (pc = "done" /\ input = <<"$", "$", " ", "m", " ", "$", "$">>) =>
            html[2] = MathFragment(<<"m">>, FALSE) \o "\n\n"


-----------------------------------------------------------------------------
(* Termination *)

\* C31: render() terminates on every finite input: each pass of the line
\* loop moves the cursor forward by at least one character and never
\* backwards, the classification loop goes round again only behind a
\* blockquote marker, which has consumed at least one character; the
\* cursor never passes the end of the input by more than one, so the passes
\* are at most as many as the input has characters, and the step from a
\* cursor at or past the end is the return.
RenderTerminates ==
    /\ [][/\ cursor' >= cursor
          /\ (pc = "render" /\ pc' = "render") =>
                /\ cursor' > cursor
                /\ cursor' = cursor + Len(LineOfStep) + 1
                /\ cursor' <= Len(input) + 1
                /\ Len(BehindQuotes(Drop(input, cursor)))
                      <= Len(input) - cursor - QuoteCount(Drop(input, cursor))]_vars
    /\ [][(pc = "render" /\ cursor >= Len(input)) => pc' = "done"]_vars
    /\ [](cursor <= Len(input) + 1)

\* render() has returned from two lines, the first with two blockquote
\* markers, with its cursor one past the end of the input
ReturnedPastInput ==
    /\ pc = "done"
    /\ input = <<">", ">", " ", "x", "\n", ">">>
    /\ cursor = Len(input) + 1


-----------------------------------------------------------------------------
(* Classification as a function of the line *)

MaxCounter == 3

\* An instance without its generated id
WithoutId(c) ==
    IF c.type \in {LIST_ITEM, CHECKBOX_LABEL}
    THEN [type |-> c.type, state |-> [c.state EXCEPT !.id = 0]]
    ELSE c

WithoutIds(cmds) == [i \in DOMAIN cmds |-> WithoutId(cmds[i])]

\* The classification of the step agrees with the classification `again`
\* of the same remaining input made with the id counter at n
SameClassification(again, n) ==
    /\ ~again.thrown
    /\ WithoutIds(again.commands) = WithoutIds(commands')
    /\ again.text = text'
    /\ again.cursor = cursor' - cursor
    /\ again.id - n = id' - id
    /\ Len(again.issued) = Len(issued') - Len(issued)

TwoLinksTwoAnchors ==
    (pc = "done" /\ input = TwoLinks) =>
        html[2] = "<a href=\"b\">a</a> <a href=\"d\">c</a>\n\n"

\* What the code does: the greedy label runs to the last "](" of the line,
\* and one anchor is written whose label holds the first link
TwoLinksOneAnchor ==
    (pc = "done" /\ input = TwoLinks) =>
        html[2] = "<a href=\"d\">a](b) [c</a>\n\n"

\* C34: text in triple asterisks renders as an italic element around a bold
\* element around the text, each inline tag closed before the tag that
\* encloses it.
TripleStarsNested ==
    (pc = "done" /\ input = TripleStars) =>
        html[2] = "<i><b>x</b></i>\n\n"

\* What the code does: the bold span takes the first two asterisks and the
\* first two behind the text, the italic span the two that are left, and
\* the bold element is closed inside the italic one that it opened before
TripleStarsCrossed ==
    (pc = "done" /\ input = TripleStars) =>
        html[2] = "<b><i>x</b></i>\n\n"


-----------------------------------------------------------------------------
(* The shape of the stack and of the output *)

\* The kinds that are not stackable and are no part of a list
Leaves ==
    {CHECKBOX_LABEL, HORIZONTAL_RULE, TABLE, CODE_BLOCK, PAGE_BREAK, MATH,
     HEADING, PARAGRAPH}

\* The kinds ks are nothing, one leaf, or pairs of a list and a list item
LeafOrPairs(ks) ==
    \/ ks = <<>>
    \/ Len(ks) = 1 /\ ks[1] \in Leaves
    \/ /\ Len(ks) % 2 = 0
       /\ \A i \in DOMAIN ks : ks[i] = IF i % 2 = 1 THEN LIST ELSE LIST_ITEM

\* C35: in every reachable state the open stack, outermost first, is zero or
\* more blockquotes followed by nothing, by exactly one leaf, or by one or
\* more pairs of a list and a list item: between lines a list is never the
\* innermost frame and nothing is nested inside a leaf.
StackShape ==
    /\ LeafOrPairs(Drop(Kinds(stack), CountIn(Kinds(stack), 1, {BLOCKQUOTE})))
    /\ stack # <<>> => stack[Len(stack)].type # LIST
    /\ \A i \in 1..(Len(stack) - 1) : stack[i].type \notin Leaves

\* A list and its item are open inside a blockquote
PairInsideBlockquote ==
    /\ pc = "render"
    /\ Kinds(stack) = <<BLOCKQUOTE, LIST, LIST_ITEM>>


\* The opening tags of the containers, and their closing tags
ContainerOpenings == {"<blockquote>\n", "<ol>\n", "<ul>\n", "<li>\n"}
ContainerClosings == {"</blockquote>\n", "</ol>\n", "</ul>\n", "</li>\n"}

\* The closing tag that answers the opening tag of a container
ContainerClosingOf(tag) ==
    CASE tag = "<blockquote>\n" -> "</blockquote>\n"
      [] tag = "<ol>\n" -> "</ol>\n"
      [] tag = "<ul>\n" -> "</ul>\n"
      [] tag = "<li>\n" -> "</li>\n"

RECURSIVE OpenContainers(_, _)
\* The opening tags of containers that the buffer h leaves unanswered,
\* outermost first, behind those of `open`; <<"crossed">> when a closing tag
\* does not answer the opening tag that is open innermost
OpenContainers(h, open) ==
    IF h = <<>> THEN open
    ELSE IF h[1] \in ContainerOpenings
    THEN OpenContainers(Tail(h), Append(open, h[1]))
    ELSE IF h[1] \in ContainerClosings
    THEN IF open # <<>> /\ h[1] = ContainerClosingOf(open[Len(open)])
         THEN OpenContainers(Tail(h), SubSeq(open, 1, Len(open) - 1))
         ELSE <<"crossed">>
    ELSE OpenContainers(Tail(h), open)

\* The opening tag of a container frame
ContainerOpening(frame) ==
    CASE frame.type = BLOCKQUOTE -> "<blockquote>\n"
      [] frame.type = LIST -> ListOpening(frame)
      [] frame.type = LIST_ITEM -> "<li>\n"

RECURSIVE ContainerTags(_)
\* The opening tags of the container frames of the stack st, outermost first
ContainerTags(st) ==
    IF st = <<>> THEN <<>>
    ELSE IF st[1].type \in Leaves THEN ContainerTags(Tail(st))
    ELSE <<ContainerOpening(st[1])>> \o ContainerTags(Tail(st))

\* The step closes the leaf that is the innermost frame
LeafClosed ==
    /\ stack # <<>>
    /\ stack[Len(stack)].type \in Leaves
    /\ Added # <<>>
    /\ Added[1] = PopEntry(stack[Len(stack)])

\* C36: in every final output the tags of the containers (blockquote, ol,
\* ul, li) are balanced and nested, each opening tag answered by its closing
\* tag, last opened first closed; during render() the containers open in
\* the buffer are those of the stack, and the element of a leaf is written
\* while the containers that were open when it was matched are still open.
ContainersBalanced ==
    /\ [](pc = "done" => OpenContainers(html, <<>>) = <<>>)
    /\ [](pc = "render" => OpenContainers(html, <<>>) = ContainerTags(stack))
    /\ [][LeafClosed =>
            /\ SubSeq(html', 1, Len(html)) = html
            /\ OpenContainers(html, <<>>)
                = ContainerTags(SubSeq(stack, 1, Len(stack) - 1))
            /\ stack[Len(stack)].type # PAGE_BREAK =>
                  /\ Written # <<>>
                  /\ Written[1] \notin ContainerOpenings \cup ContainerClosings]_vars

\* A list in a blockquote has been rendered and a heading behind it
ListInBlockquoteRendered ==
    /\ pc = "done"
    /\ input = <<">", " ", "-", " ", "a", "\n", "#", " ", "a">>
    /\ SubSeq(html, 1, 7)
        = << "<blockquote>\n", "<ul>\n", "<li>\n", "a\n",
             "</li>\n", "</ul>\n", "</blockquote>\n" >>
    /\ Len(html) = 10


-----------------------------------------------------------------------------
(* The order of the output *)

MaxOrderLines == 3

\* What stands before the letter of a line: a heading, a paragraph, a list
\* item, a paragraph in a blockquote, a list item in a blockquote
BlockMarkers ==
    { <<"#", " ">>, <<>>, <<"-", " ">>, <<">", " ">>, <<">", " ", "-", " ">> }

\* The k-th line of an input carries the k-th letter, or is blank
OrderLine(marker, k) == marker \o <<Letters[k]>>

OrderInput(markers) ==
    Join([k \in DOMAIN markers |->
            IF markers[k] = <<"blank">> THEN <<>> ELSE OrderLine(markers[k], k)],
         <<"\n">>)

OrderInputs ==
    { OrderInput(markers) :
        markers \in UNION { [1..n -> BlockMarkers \cup {<<"blank">>}] :
                            n \in 0..MaxOrderLines } }

InitOrder == InitOn(OrderInputs)

SpecOrder == InitOrder /\ [][Next]_vars

RECURSIVE LetterRun(_, _)
\* The text of a paragraph of the lines i to j
LetterRun(i, j) ==
    IF i > j THEN "" ELSE Letters[i] \o "\n" \o LetterRun(i + 1, j)

\* The pieces of output that carry the letter of line k: the text of a list
\* item, the text of a heading, the text of a paragraph of lines i to j
Carriers(k) ==
    { Letters[k] \o "\n", " " \o Letters[k] \o "\n" }
        \cup { LetterRun(i, j) \o "\n" : i \in 1..k, j \in k..MaxOrderLines }

\* The places of the buffer that carry the letter of line k
Places(k) == {i \in DOMAIN html : html[i] \in Carriers(k)}

\* The lines of the input that are not blank
Blocks == {k \in DOMAIN SplitLines(input) : SplitLines(input)[k] # <<>>}

\* C37: the order of the output follows the order of the input: the buffer
\* only grows at its end, and of two blocks the one whose first line comes
\* first in the input has its output first in the buffer, though a leaf
\* writes its element only when it is closed.
OutputInInputOrder ==
    /\ [][SubSeq(html', 1, Len(html)) = html]_vars
    /\ [](pc = "done" =>
            /\ \A k \in Blocks : Cardinality(Places(k)) = 1
            /\ \A k, l \in Blocks :
                  k < l => \A i \in Places(k), j \in Places(l) : i <= j)

\* A heading, a paragraph in a blockquote and a list item have been written
\* in the order of their lines
ThreeBlocksInOrder ==
    /\ pc = "done"
    /\ input = OrderInput(<< <<"#", " ">>, <<">", " ">>, <<"-", " ">> >>)
    /\ Places(1) = {2}
    /\ Places(2) = {6}
    /\ Places(3) = {11}


-----------------------------------------------------------------------------
(* render() called again on the same renderer *)

\* A faulty variant of RenderAgain that starts over from the first line
RenderAgainFromStart ==
    /\ pc \in {"done", "thrown"}
    /\ Len(rendered) < MaxRenders
    /\ rendered' = Append(rendered, Outcome)
    /\ pc' = "render"
    /\ cursor' = 0
    /\ UNCHANGED <<input, id, html, stack, text, commands, issued, log>>

\* Another call of render() on the renderer, after the call before it has
\* returned or thrown: the fields are as that call left them
RenderAgain ==
    /\ pc \in {"done", "thrown"}
    /\ Len(rendered) < MaxRenders
    /\ rendered' = Append(rendered, Outcome)
    /\ pc' = "render"
    /\ UNCHANGED <<input, cursor, id, html, stack, text, commands, issued, log>>

NextAgain == RenderLine \/ Drain \/ RenderAgain

\* The empty input, every line by itself, the inputs of the sessions and an
\* input on which render() throws
InitAgain ==
    InitOn(InputsOf(Lines, 1) \cup SessionInputs
              \cup { <<":", " ", " ", " ", " ", "-", " ", "d">> })

SpecAgain == InitAgain /\ [][NextAgain]_vars

\* The call of render() in progress follows a call that has returned
CalledAgain ==
    /\ rendered # <<>>
    /\ rendered[Len(rendered)].pc = "done"

\* C38: a second call of render() on the same renderer is a no-op: the
\* cursor is past the input and the stack is empty, so the call returns
\* without a pass of its loop, and html() is what it was after the first
\* call.
SecondRenderNoOp ==
    /\ [][(pc = "render" /\ CalledAgain) =>
            /\ cursor >= Len(input)
            /\ stack = <<>>
            /\ pc' = "done"
            /\ UNCHANGED <<input, cursor, id, html, stack, issued, log>>]_vars
    /\ [](pc = "done" =>
            \A i \in DOMAIN rendered :
                rendered[i].pc = "done" =>
                    /\ rendered[i].html = html
                    /\ rendered[i].issued = issued)

\* render() has returned a second time from an input of two checkboxes
RenderedTwice ==
    /\ pc = "done"
    /\ Len(rendered) = 1
    /\ rendered[1].pc = "done"
    /\ Len(issued) = 2
    /\ Len(html) = 10
    /\ rendered[1].html = html

====
